---------------------------- MODULE Spec2Model ----------------------------
(***************************************************************************)
(* Faculty-roster extraction: the cell normalizer, the row classifiers,    *)
(* the field inference engine, the experience normalizer and the           *)
(* deduplicating assembler of the four script variants.                    *)
(*                                                                         *)
(* Text is modelled as a sequence of one-character strings, so that the    *)
(* regular expressions, str.lower(), str.strip(), int() and the f-string   *)
(* formatting of the scripts are computed rather than assumed.             *)
(***************************************************************************)
EXTENDS Integers, Sequences, FiniteSets, TLC

VARIABLES
    pc,               \* position of the control in the operation under study
    arg,              \* argument of the pure function under study
    out1,             \* its result
    out2,             \* the result of applying it to out1
    norm_row,         \* the row handed to a classifier / to record creation
    i,                \* index of the scan loop of create_enhanced_record_with_years
    record,           \* the record under construction
    filled_fields,    \* the filled_fields flags of the scan
    remaining_cells,  \* the remaining_cells list of the fallback pass
    fired,            \* the rule that consumed the cell of the last scan step
    verdict,          \* what one script made of the row
    records,          \* the record list handed to assembly
    df,               \* the final table
    script,           \* the script that is run
    encountered,      \* the records built from the rows, in page and row order
    pdf_files,        \* the documents of the batch, sorted
    doc,              \* how many documents process_all_pdfs_separately has taken up
    pdf,              \* the document that is open
    page_num,         \* how many of its pages extract_from_single_pdf has handled
    created_files,    \* the paths of the workbooks written
    total_faculty,    \* the number of rows written to them
    creatable,        \* the candidate directories os.makedirs can create
    output_dir,       \* the directory the workbooks go to
    in_faculty_section, \* project.py: the Faculty Details section has begun
    headers_found,    \* project.py: the header row has been captured
    column_names,     \* project.py: the header row
    data_rows         \* project.py: the rows kept

vars == <<pc, arg, out1, out2, norm_row, i, record, filled_fields,
          remaining_cells, fired, verdict, records, df, script, encountered,
          pdf_files, doc, pdf, page_num, created_files, total_faculty,
          creatable, output_dir,
          in_faculty_section, headers_found, column_names, data_rows>>

\* the state of the document loops
batch_vars == <<pdf_files, doc, pdf, page_num, created_files, total_faculty,
                creatable, output_dir,
                in_faculty_section, headers_found, column_names, data_rows>>

\* the state of extract_faculty_from_pdf of project.py
section_vars == <<in_faculty_section, headers_found, column_names, data_rows>>

\* extract_faculty_from_pdf is not running
SectionIdle ==
    /\ in_faculty_section = FALSE /\ headers_found = FALSE
    /\ column_names = <<>> /\ data_rows = <<>>

\* no batch is running
BatchIdle ==
    /\ pdf_files = <<>> /\ doc = 0 /\ pdf = <<>> /\ page_num = 0
    /\ created_files = <<>> /\ total_faculty = 0
    /\ creatable = {} /\ output_dir = ""
    /\ SectionIdle

(***************************************************************************)
(* Characters and character classes.                                       *)
(***************************************************************************)
DigitChars == <<"0", "1", "2", "3", "4", "5", "6", "7", "8", "9">>
LowerChars == <<"a", "b", "c", "d", "e", "f", "g", "h", "i", "j", "k", "l", "m",
                "n", "o", "p", "q", "r", "s", "t", "u", "v", "w", "x", "y", "z">>
UpperChars == <<"A", "B", "C", "D", "E", "F", "G", "H", "I", "J", "K", "L", "M",
                "N", "O", "P", "Q", "R", "S", "T", "U", "V", "W", "X", "Y", "Z">>

Range(f) == {f[k] : k \in DOMAIN f}

IsDigit(c) == c \in Range(DigitChars)
IsLower(c) == c \in Range(LowerChars)
IsUpper(c) == c \in Range(UpperChars)
IsAlpha(c) == IsLower(c) \/ IsUpper(c)
\* \s of the re module and the characters str.strip() removes
IsSpace(c) == c \in {" ", "\t", "\n", "\r"}
\* \w of the re module
IsWord(c) == IsAlpha(c) \/ IsDigit(c) \/ c = "_"
\* ord(char) < 128; "~e" stands for a non-ASCII character (an accented e)
NonAscii == "~e"
IsAscii(c) == c # NonAscii

DigitVal(c) == (CHOOSE k \in 1..10 : DigitChars[k] = c) - 1

\* str.lower() and str.upper(), one character
LowerChar(c) == IF IsUpper(c) THEN LowerChars[CHOOSE k \in 1..26 : UpperChars[k] = c] ELSE c
UpperChar(c) == IF IsLower(c) THEN UpperChars[CHOOSE k \in 1..26 : LowerChars[k] = c] ELSE c
Lower(s) == [k \in 1..Len(s) |-> LowerChar(s[k])]
Upper(s) == [k \in 1..Len(s) |-> UpperChar(s[k])]

Min(a, b) == IF a < b THEN a ELSE b

(***************************************************************************)
(* Text primitives.                                                        *)
(***************************************************************************)
\* t in s
Contains(s, t) ==
    \E p \in 1..(Len(s) - Len(t) + 1) : SubSeq(s, p, p + Len(t) - 1) = t

\* any(term in s for term in terms)
ContainsAny(s, terms) == \E t \in terms : Contains(s, t)

\* str.strip()
RECURSIVE LStrip(_)
LStrip(s) == IF s # <<>> /\ IsSpace(Head(s)) THEN LStrip(Tail(s)) ELSE s
RECURSIVE RStrip(_)
RStrip(s) ==
    IF s # <<>> /\ IsSpace(s[Len(s)]) THEN RStrip(SubSeq(s, 1, Len(s) - 1)) ELSE s
Strip(s) == RStrip(LStrip(s))

\* " ".join(cells)
RECURSIVE JoinSpace(_)
JoinSpace(cells) ==
    IF cells = <<>> THEN <<>>
    ELSE IF Len(cells) = 1 THEN cells[1]
    ELSE cells[1] \o <<" ">> \o JoinSpace(Tail(cells))

\* cells[:n]
Take(cells, n) == SubSeq(cells, 1, Min(n, Len(cells)))

(***************************************************************************)
(* Regular expressions: a pattern is a sequence of items, each a character *)
(* class with a repetition range (AtLeast: no upper limit, as + and {n,}). *)
(***************************************************************************)
InClass(c, cls) ==
    CASE cls = "d"     -> IsDigit(c)
      [] cls = "s"     -> IsSpace(c)
      [] cls = "w"     -> IsWord(c)
      [] cls = "alpha" -> IsAlpha(c)
      [] cls = "lower" -> IsLower(c)
      [] cls = "sep"   -> c \in {"/", "-"}
      [] cls = "bm"    -> c \in {"b", "m"}
      [] cls = "mf"    -> c \in {"m", "f"}
      [] cls = "crlf"  -> c \in {"\r", "\n"}
      [] OTHER         -> c = cls

It(cls, lo, hi) == [cls |-> cls, lo |-> lo, hi |-> hi, open |-> FALSE]
AtLeast(cls, lo) == [cls |-> cls, lo |-> lo, hi |-> lo, open |-> TRUE]
One(cls) == It(cls, 1, 1)

\* the lengths n such that pattern pat, from item k on, matches s[p .. p+n-1]
RECURSIVE MatchLens(_, _, _, _)
MatchLens(pat, k, s, p) ==
    IF k > Len(pat) THEN {0}
    ELSE UNION { { n + m : m \in MatchLens(pat, k + 1, s, p + n) } :
                 n \in { n \in pat[k].lo ..
                             (IF pat[k].open THEN Len(s) - p + 1
                              ELSE Min(pat[k].hi, Len(s) - p + 1)) :
                         \A j \in 0..(n - 1) : InClass(s[p + j], pat[k].cls) } }

\* re.search(pat, s) is not None
Search(pat, s) == \E p \in 1..(Len(s) + 1) : MatchLens(pat, 1, s, p) # {}
\* re.match('^pat$', s) is not None
FullMatch(pat, s) == Len(s) \in MatchLens(pat, 1, s, 1)

\* the maximal run of class cls starting at position p
RECURSIVE RunFrom(_, _, _)
RunFrom(s, p, cls) ==
    IF p <= Len(s) /\ InClass(s[p], cls)
    THEN <<s[p]>> \o RunFrom(s, p + 1, cls) ELSE <<>>

\* re.search(r"\d+", s).group(): the leftmost, longest digit run (<<>>: no match)
FirstDigitRun(s) ==
    IF \E p \in 1..Len(s) : IsDigit(s[p])
    THEN RunFrom(s, CHOOSE p \in 1..Len(s) :
                        IsDigit(s[p]) /\ \A q \in 1..(p - 1) : ~IsDigit(s[q]), "d")
    ELSE <<>>

(***************************************************************************)
(* int() and str() of non-negative integers.                               *)
(***************************************************************************)
\* Python integers are unbounded and TLC's have 32 bits: a digit run of more
\* than 9 significant digits is read as IntCap, which is above every bound the
\* scripts compare a number with.
IntCap == 1000000000

RECURSIVE DropLeadingZeros(_)
DropLeadingZeros(ds) ==
    IF Len(ds) > 1 /\ Head(ds) = "0" THEN DropLeadingZeros(Tail(ds)) ELSE ds

RECURSIVE ParseDigits(_)
ParseDigits(ds) ==
    IF ds = <<>> THEN 0
    ELSE 10 * ParseDigits(SubSeq(ds, 1, Len(ds) - 1)) + DigitVal(ds[Len(ds)])

ParseInt(ds) ==
    IF Len(DropLeadingZeros(ds)) > 9 THEN IntCap ELSE ParseDigits(DropLeadingZeros(ds))

RECURSIVE IntToStr(_)
IntToStr(n) ==
    IF n < 10 THEN <<DigitChars[n + 1]>>
    ELSE IntToStr(n \div 10) \o <<DigitChars[(n % 10) + 1]>>

\* the value None, as a raw cell
Null == <<"<None>">>

(***************************************************************************)
(* The utility functions.                                                  *)
(***************************************************************************)
\* re.sub(cls + "+", " ", s): every maximal run of the class becomes one space
CollapseRuns(s, cls) ==
    LET marked == [k \in 1..Len(s) |->
                      [c |-> s[k], in |-> InClass(s[k], cls),
                       after |-> k > 1 /\ InClass(s[k - 1], cls)]]
        Kept(m) == ~(m.in /\ m.after)
        kept == SelectSeq(marked, Kept)
    IN  [k \in 1..Len(kept) |-> IF kept[k].in THEN " " ELSE kept[k].c]

\* re.sub(r"\s+", " ", s)
CollapseSpace(s) == CollapseRuns(s, "s")

\* s.replace("\r", " ").replace("\n", " ")
ReplaceBreaks(s) == [k \in 1..Len(s) |-> IF s[k] \in {"\r", "\n"} THEN " " ELSE s[k]]

safe_normalize_cell_nostrip(cell) ==
    IF cell = Null THEN <<>> ELSE CollapseSpace(ReplaceBreaks(cell))

safe_normalize_cell(cell) ==
    IF cell = Null THEN <<>> ELSE CollapseSpace(Strip(ReplaceBreaks(cell)))

\* re.sub(r'[\r\n]+', ' ', s)
CollapseBreaks(s) == CollapseRuns(s, "crlf")

\* ''.join(char for char in text if ord(char) < 128)
DropNonAscii(s) == SelectSeq(s, IsAscii)

clean_cell(cell) ==
    IF cell = Null \/ cell = <<>> THEN <<>>
    ELSE Strip(DropNonAscii(CollapseSpace(CollapseBreaks(Strip(cell)))))

\* an optional integer: None, or an int
NoNumber == [some |-> FALSE, val |-> 0]
Some(n) == [some |-> TRUE, val |-> n]
\* the truth value of an optional integer: None and 0 are false
Truthy(x) == x.some /\ x.val # 0

safe_extract_number(text) ==
    IF text = <<>> THEN NoNumber
    ELSE IF FirstDigitRun(text) = <<>> THEN NoNumber
    ELSE Some(ParseInt(FirstDigitRun(text)))

get_number(text) ==
    IF FirstDigitRun(text) = <<>> THEN NoNumber ELSE Some(ParseInt(FirstDigitRun(text)))

\* f"{months / 12:.1f}": the quotient in tenths, halves rounded to even
Tenths(months) ==
    LET q == (5 * months) \div 6
        r == (5 * months) % 6
    IN  IF r < 3 THEN q
        ELSE IF r > 3 THEN q + 1
        ELSE IF q % 2 = 0 THEN q ELSE q + 1
OneDecimal(months) ==
    IntToStr(Tenths(months) \div 10) \o <<".">> \o IntToStr(Tenths(months) % 10)

MonthsWord == <<" ", "m", "o", "n", "t", "h", "s">>
YearsWord == <<" ", "y", "e", "a", "r", "s">>

\* convert_months_to_years without its whole-years branch
convert_months_to_years_onedecimal(months_text) ==
    IF months_text = <<>> THEN <<>>
    ELSE LET months == safe_extract_number(months_text)
         IN  IF ~Truthy(months) THEN months_text
             ELSE IF months.val < 12 THEN IntToStr(months.val) \o MonthsWord
             ELSE OneDecimal(months.val) \o YearsWord

\* a converter that reads the unit word: a duration given in years is kept
convert_months_to_years_unitaware(months_text) ==
    IF months_text = <<>> THEN <<>>
    ELSE LET months == safe_extract_number(months_text)
         IN  IF ~Truthy(months) THEN months_text
             ELSE IF Contains(Lower(months_text), <<"y", "e", "a", "r">>)
             THEN IntToStr(months.val) \o YearsWord
             ELSE IF months.val < 12 THEN IntToStr(months.val) \o MonthsWord
             ELSE IF months.val % 12 = 0 THEN IntToStr(months.val \div 12) \o YearsWord
             ELSE OneDecimal(months.val) \o YearsWord

convert_months_to_years(months_text) ==
    IF months_text = <<>> THEN <<>>
    ELSE LET months == safe_extract_number(months_text)
         IN  IF ~Truthy(months) THEN months_text
             ELSE IF months.val < 12 THEN IntToStr(months.val) \o MonthsWord
             ELSE IF months.val % 12 = 0 THEN IntToStr(months.val \div 12) \o YearsWord
             ELSE OneDecimal(months.val) \o YearsWord

(***************************************************************************)
(* The row classifiers of the four scripts.  A row is a sequence of cells; *)
(* row[1] is the serial cell (row[0] of the scripts), row[2] the name.     *)
(***************************************************************************)
\* sum(1 for cell in row if str(cell).strip())
NonEmptyCount(row) == Cardinality({ k \in 1..Len(row) : Strip(row[k]) # <<>> })

\* projectdatamulti.py
exclude_terms_multi ==
    { <<"t", "o", "t", "a", "l">>,
      <<"p", "e", "r", "c", "e", "n", "t", "a", "g", "e">>,
      <<"b", "u", "i", "l", "t">>,
      <<"a", "r", "e", "a">>,
      <<"l", "a", "b", "o", "r", "a", "t", "o", "r", "y">>,
      <<"p", "l", "a", "y", "g", "r", "o", "u", "n", "d">>,
      <<"e", "s", "t", "a", "b", "l", "i", "s", "h", "m", "e", "n", "t">>,
      <<"r", "e", "c", "o", "g", "n", "i", "t", "i", "o", "n">>,
      <<"a", "c", "c", "r", "e", "d", "i", "t", "a", "t", "i", "o", "n">> }

\* the classifier of projectdatamulti.py without its test for a digit in cell[0]
is_potential_faculty_row_multi_nodigit(row) ==
    IF Len(row) < 2 THEN FALSE
    ELSE LET first_cell == Strip(row[1])
             second_cell == Strip(row[2])
             row_text == Lower(JoinSpace(Take(row, 3)))
         IN  IF first_cell = <<>> \/ Len(first_cell) > 10 THEN FALSE
             ELSE IF second_cell = <<>> \/ Len(second_cell) < 2 THEN FALSE
             ELSE ~ContainsAny(row_text, exclude_terms_multi)

is_potential_faculty_row_multi(row) ==
    IF Len(row) < 2 THEN FALSE
    ELSE LET first_cell == Strip(row[1])
             second_cell == Strip(row[2])
             row_text == Lower(JoinSpace(Take(row, 3)))
         IN  IF first_cell = <<>> \/ Len(first_cell) > 10 THEN FALSE
             ELSE IF ~Search(<<One("d")>>, first_cell) THEN FALSE
             ELSE IF second_cell = <<>> \/ Len(second_cell) < 2 THEN FALSE
             ELSE ~ContainsAny(row_text, exclude_terms_multi)

\* extraction.py's classifier swapped for the looser one of projectdatamulti.py
is_potential_faculty_row_loose(row) == is_potential_faculty_row_multi(row)

\* extraction.py
exclude_terms ==
    { <<"t", "o", "t", "a", "l">>,
      <<"p", "e", "r", "c", "e", "n", "t", "a", "g", "e">>,
      <<"b", "u", "i", "l", "t">>,
      <<"a", "r", "e", "a">>,
      <<"l", "a", "b", "o", "r", "a", "t", "o", "r", "y">>,
      <<"p", "l", "a", "y", "g", "r", "o", "u", "n", "d">>,
      <<"e", "s", "t", "a", "b", "l", "i", "s", "h", "m", "e", "n", "t">>,
      <<"r", "e", "c", "o", "g", "n", "i", "t", "i", "o", "n">>,
      <<"a", "c", "c", "r", "e", "d", "i", "t", "a", "t", "i", "o", "n">>,
      <<"d", "e", "p", "a", "r", "t", "m", "e", "n", "t", " ", "w", "i", "s", "e">>,
      <<"c", "a", "t", "e", "g", "o", "r", "y", " ", "w", "i", "s", "e">>,
      <<"g", "r", "a", "n", "d", " ", "t", "o", "t", "a", "l">>,
      <<"s", "u", "b", " ", "t", "o", "t", "a", "l">>,
      <<"o", "v", "e", "r", "a", "l", "l">>,
      <<"s", "u", "m", "m", "a", "r", "y">> }

is_potential_faculty_row(row) ==
    IF Len(row) < 2 THEN FALSE
    ELSE LET first_cell == Strip(row[1])
             serial_num == safe_extract_number(first_cell)
             second_cell == Strip(row[2])
             row_text == Lower(JoinSpace(Take(row, 5)))
         IN  IF first_cell = <<>> \/ Len(first_cell) > 10 THEN FALSE
             ELSE IF ~Search(<<One("d")>>, first_cell) THEN FALSE
             ELSE IF ~Truthy(serial_num) \/ serial_num.val < 1 \/ serial_num.val > 9999
                  THEN FALSE
             ELSE IF second_cell = <<>> \/ Len(second_cell) < 2 THEN FALSE
             ELSE IF ~Search(<<AtLeast("alpha", 2)>>, second_cell) \/ Len(second_cell) > 100
                  THEN FALSE
             ELSE IF ContainsAny(row_text, exclude_terms) THEN FALSE
             ELSE IF NonEmptyCount(row) < 3 THEN FALSE
             ELSE TRUE

\* python.project4.py
exclude_terms_p4 ==
    { <<"t", "o", "t", "a", "l">>,
      <<"p", "e", "r", "c", "e", "n", "t", "a", "g", "e">>,
      <<"b", "u", "i", "l", "t">>,
      <<"a", "r", "e", "a">>,
      <<"l", "a", "b", "o", "r", "a", "t", "o", "r", "y">>,
      <<"p", "l", "a", "y", "g", "r", "o", "u", "n", "d">>,
      <<"e", "s", "t", "a", "b", "l", "i", "s", "h", "m", "e", "n", "t">>,
      <<"r", "e", "c", "o", "g", "n", "i", "t", "i", "o", "n">>,
      <<"a", "c", "c", "r", "e", "d", "i", "t", "a", "t", "i", "o", "n">> }

is_potential_faculty_row_p4(row) ==
    IF Len(row) < 2 THEN FALSE
    ELSE LET first_cell == Strip(row[1])
             second_cell == Strip(row[2])
             row_text == Lower(JoinSpace(Take(row, 3)))
         IN  IF first_cell = <<>> \/ Len(first_cell) > 10 THEN FALSE
             ELSE IF ~Search(<<One("d")>>, first_cell) THEN FALSE
             ELSE IF second_cell = <<>> \/ Len(second_cell) < 2 THEN FALSE
             ELSE ~ContainsAny(row_text, exclude_terms_p4)

\* python.project3.py
is_data_row(row) ==
    IF Len(row) < 2 THEN FALSE
    ELSE LET sno == get_number(row[1])
             name == clean_cell(row[2])
         IN  IF ~Truthy(sno) \/ sno.val > 5000 THEN FALSE
             ELSE IF name = <<>> \/ Len(name) < 2 THEN FALSE
             ELSE IF ~(\E k \in 1..Len(name) : IsAlpha(name[k])) THEN FALSE
             ELSE TRUE

(***************************************************************************)
(* create_enhanced_record_with_years (extraction.py): the record, the      *)
(* filled_fields flags and the detection rules of the scan.                *)
(***************************************************************************)
Fields ==
    { "S No", "Name", "Age", "Designation", "Gender", "Qualification",
      "Experience (in years)", "Currently working with institution?",
      "Joining Date", "Leaving Date", "Association type", "Institution name" }

FlagNames ==
    { "Age", "Gender", "Designation", "Qualification", "Experience", "Working",
      "JoiningDate", "LeavingDate", "Association" }

\* the record as first built: S No, Name and Institution name set, the rest empty
NewRecord(row, institution_name, serial_num) ==
    [f \in Fields |->
        CASE f = "S No" -> IntToStr(serial_num)
          [] f = "Name" -> IF Len(row) > 1 THEN Strip(row[2]) ELSE <<>>
          [] f = "Institution name" -> institution_name
          [] OTHER -> <<>>]

NewFlags == [f \in FlagNames |-> FALSE]

\* record.values()
Values(rec) == { rec[f] : f \in DOMAIN rec }

\* the state of one call: the record, the flags, the leftover cells, and the
\* rule that consumed the last cell scanned
CallState(rec, ff, rem, r) ==
    [record |-> rec, filled_fields |-> ff, remaining_cells |-> rem, fired |-> r]

\* the assignment without filled_fields[flag] = True
Fill_flagless(rec, ff, field, value, flag, r) ==
    CallState([rec EXCEPT ![field] = value], ff, <<>>, r)

\* record[field] = value; filled_fields[flag] = True; continue
Fill(rec, ff, field, value, flag, r) ==
    CallState([rec EXCEPT ![field] = value], [ff EXCEPT ![flag] = TRUE], <<>>, r)

\* cells the scan and the fallback pass skip
NanNone == { <<"n", "a", "n">>, <<"n", "o", "n", "e">> }
Skipped(cell_value) == cell_value = <<>> \/ Lower(cell_value) \in NanNone

gender_words ==
    { <<"m">>,
      <<"f">>,
      <<"m", "a", "l", "e">>,
      <<"f", "e", "m", "a", "l", "e">>,
      <<"m", "a", "n">>,
      <<"w", "o", "m", "a", "n">> }
designation_keywords ==
    { <<"p", "r", "o", "f", "e", "s", "s", "o", "r">>,
      <<"l", "e", "c", "t", "u", "r", "e", "r">>,
      <<"a", "s", "s", "i", "s", "t", "a", "n", "t">>,
      <<"a", "s", "s", "o", "c", "i", "a", "t", "e">>,
      <<"p", "r", "i", "n", "c", "i", "p", "a", "l">>,
      <<"h", "o", "d">>,
      <<"d", "e", "a", "n">>,
      <<"d", "i", "r", "e", "c", "t", "o", "r">>,
      <<"r", "e", "g", "i", "s", "t", "r", "a", "r">>,
      <<"i", "n", "s", "t", "r", "u", "c", "t", "o", "r">>,
      <<"d", "e", "m", "o", "n", "s", "t", "r", "a", "t", "o", "r">>,
      <<"t", "u", "t", "o", "r">>,
      <<"f", "e", "l", "l", "o", "w">>,
      <<"c", "o", "o", "r", "d", "i", "n", "a", "t", "o", "r">>,
      <<"l", "i", "b", "r", "a", "r", "i", "a", "n">> }
experience_indicators ==
    { <<"m", "o", "n", "t", "h">>,
      <<"y", "e", "a", "r">>,
      <<"e", "x", "p", "e", "r", "i", "e", "n", "c", "e">>,
      <<"e", "x", "p">>,
      <<"s", "e", "r", "v", "i", "c", "e">>,
      <<"t", "e", "a", "c", "h", "i", "n", "g">>,
      <<"w", "o", "r", "k", "i", "n", "g">>,
      <<"e", "m", "p", "l", "o", "y", "e", "d">>,
      <<"t", "e", "n", "u", "r", "e">>,
      <<"d", "u", "r", "a", "t", "i", "o", "n">>,
      <<"p", "e", "r", "i", "o", "d">>,
      <<"m", "o", "n", "t", "h", "s">>,
      <<"y", "e", "a", "r", "s">>,
      <<"y", "r", "s">> }
working_patterns ==
    { <<"y", "e", "s">>,
      <<"n", "o">>,
      <<"w", "o", "r", "k", "i", "n", "g">>,
      <<"c", "u", "r", "r", "e", "n", "t">>,
      <<"p", "e", "r", "m", "a", "n", "e", "n", "t">>,
      <<"t", "e", "m", "p", "o", "r", "a", "r", "y">>,
      <<"c", "o", "n", "t", "i", "n", "u", "i", "n", "g">>,
      <<"r", "e", "s", "i", "g", "n", "e", "d">>,
      <<"r", "e", "t", "i", "r", "e", "d">>,
      <<"a", "c", "t", "i", "v", "e">>,
      <<"i", "n", "a", "c", "t", "i", "v", "e">> }
qual_keywords ==
    { <<"p", "h", "d">>,
      <<"p", "h", ".", "d">>,
      <<"d", "o", "c", "t", "o", "r", "a", "t", "e">>,
      <<"m", "t", "e", "c", "h">>,
      <<"m", ".", "t", "e", "c", "h">>,
      <<"b", "t", "e", "c", "h">>,
      <<"b", ".", "t", "e", "c", "h">>,
      <<"m", "s", "c">>,
      <<"m", ".", "s", "c">>,
      <<"b", "s", "c">>,
      <<"b", ".", "s", "c">>,
      <<"m", "b", "a">>,
      <<"m", "c", "a">>,
      <<"d", "i", "p", "l", "o", "m", "a">>,
      <<"d", "e", "g", "r", "e", "e">>,
      <<"e", "n", "g", "i", "n", "e", "e", "r", "i", "n", "g">>,
      <<"m", "e", "d", "i", "c", "i", "n", "e">>,
      <<"c", "o", "m", "m", "e", "r", "c", "e">>,
      <<"a", "r", "t", "s">>,
      <<"s", "c", "i", "e", "n", "c", "e">>,
      <<"b", ".", "e">>,
      <<"m", ".", "e">>,
      <<"m", "a", "s", "t", "e", "r">>,
      <<"b", "a", "c", "h", "e", "l", "o", "r">>,
      <<"p", "g">>,
      <<"u", "g">> }

\* r'\d{1,2}[/-]\d{1,2}[/-]\d{2,4}', r'\d{1,2}\s+\w+\s+\d{2,4}',
\* r'\w+\s+\d{1,2},?\s+\d{2,4}', r'\d{2,4}[/-]\d{1,2}[/-]\d{1,2}', r'\d{4}-\d{2}'
date_patterns ==
    { <<It("d", 1, 2), One("sep"), It("d", 1, 2), One("sep"), It("d", 2, 4)>>,
      <<It("d", 1, 2), AtLeast("s", 1), AtLeast("w", 1), AtLeast("s", 1), It("d", 2, 4)>>,
      <<AtLeast("w", 1), AtLeast("s", 1), It("d", 1, 2), It(",", 0, 1), AtLeast("s", 1),
        It("d", 2, 4)>>,
      <<It("d", 2, 4), One("sep"), It("d", 1, 2), One("sep"), It("d", 1, 2)>>,
      <<It("d", 4, 4), One("-"), It("d", 2, 2)>> }

\* re.search(r'\d+', cell_value)
has_number(cell_value) == Search(<<AtLeast("d", 1)>>, cell_value)

\* re.search(r'(\d+\.\d+)', cell_value): where the leftmost match starts (0: none)
DecimalPattern == <<AtLeast("d", 1), One("."), AtLeast("d", 1)>>
DecimalStart(s) ==
    IF Search(DecimalPattern, s)
    THEN CHOOSE p \in 1..Len(s) :
            /\ MatchLens(DecimalPattern, 1, s, p) # {}
            /\ \A q \in 1..(p - 1) : MatchLens(DecimalPattern, 1, s, q) = {}
    ELSE 0
\* the digits before and after the point of that match
DecimalInt(s) == RunFrom(s, DecimalStart(s), "d")
DecimalFrac(s) == RunFrom(s, DecimalStart(s) + Len(DecimalInt(s)) + 1, "d")

\* 0.1 <= float(text) <= 50
DecimalInRange(s) ==
    LET whole == ParseInt(DecimalInt(s))
        frac == DecimalFrac(s)
    IN  /\ whole >= 1 \/ DigitVal(frac[1]) >= 1
        /\ whole < 50 \/ (whole = 50 /\ \A k \in 1..Len(frac) : frac[k] = "0")

\* str(float(text)): no leading zeros, no trailing zeros beyond the first decimal
RECURSIVE DropTrailingZeros(_)
DropTrailingZeros(ds) ==
    IF Len(ds) > 1 /\ ds[Len(ds)] = "0"
    THEN DropTrailingZeros(SubSeq(ds, 1, Len(ds) - 1)) ELSE ds
FloatStr(s) ==
    IntToStr(ParseInt(DecimalInt(s))) \o <<".">> \o DropTrailingZeros(DecimalFrac(s))

AgeMatches(cell_value) ==
    LET age == safe_extract_number(cell_value)
    IN  Truthy(age) /\ 18 <= age.val /\ age.val <= 80 /\ Len(cell_value) <= 3

GenderMatches(cell_value) ==
    \/ Lower(cell_value) \in gender_words
    \/ Upper(cell_value) \in { <<"M">>, <<"F">> }
    \/ FullMatch(<<One("mf")>>, Lower(cell_value))

DesignationMatches(cell_value) == ContainsAny(Lower(cell_value), designation_keywords)

\* Pattern 1: an experience keyword and a number
Experience4a(cell_value) ==
    ContainsAny(Lower(cell_value), experience_indicators) /\ has_number(cell_value)

\* Pattern 2: a number outside the age band, within 1..600
Experience4b(cell_value) ==
    /\ has_number(cell_value)
    /\ LET number == safe_extract_number(cell_value)
       IN  /\ Truthy(number)
           /\ ~(18 <= number.val /\ number.val <= 80)
           /\ 1 <= number.val /\ number.val <= 600

\* Pattern 3: a decimal number within 0.1..50
Experience4c(cell_value) == DecimalStart(cell_value) # 0 /\ DecimalInRange(cell_value)

WorkingMatches(cell_value) == ContainsAny(Lower(cell_value), working_patterns)

DateMatches(cell_value) ==
    \/ \E pattern \in date_patterns : Search(pattern, cell_value)
    \/ Search(<<It("d", 4, 4)>>, cell_value)

QualificationMatches(cell_value) ==
    \/ ContainsAny(Lower(cell_value), qual_keywords)
    \/ Search(<<One("bm"), One("."), AtLeast("lower", 2)>>, Lower(cell_value))
    \/ /\ Len(cell_value) > 2 /\ Len(cell_value) < 50
       /\ Search(<<AtLeast("alpha", 3)>>, cell_value)

AssociationMatches(cell_value, rec) ==
    /\ Len(cell_value) > 1 /\ Len(cell_value) < 100
    /\ ~FullMatch(<<AtLeast("d", 1)>>, cell_value)
    /\ Len(cell_value) > 2
    /\ cell_value \notin Values(rec)

(***************************************************************************)
(* The scan: the rules in the order of the loop body.  Each rule either    *)
(* consumes the cell (continue) or falls through to the next one.          *)
(***************************************************************************)
NoRule(rec, ff, cell_value) == CallState(rec, ff, <<>>, "none")

RuleAssociation(rec, ff, cell_value) ==
    IF ~ff["Association"] /\ AssociationMatches(cell_value, rec)
    THEN Fill(rec, ff, "Association type", cell_value, "Association", "Association")
    ELSE NoRule(rec, ff, cell_value)

RuleQualification(rec, ff, cell_value) ==
    IF ~ff["Qualification"] /\ QualificationMatches(cell_value)
    THEN Fill(rec, ff, "Qualification", cell_value, "Qualification", "Qualification")
    ELSE RuleAssociation(rec, ff, cell_value)

\* the Dates rule writing every date-like cell to Joining Date
\* the first date found goes to the Leaving Date
RuleDates_leavingfirst(rec, ff, cell_value) ==
    IF (~ff["JoiningDate"] \/ ~ff["LeavingDate"]) /\ DateMatches(cell_value)
    THEN IF ~ff["LeavingDate"]
         THEN Fill(rec, ff, "Leaving Date", cell_value, "LeavingDate", "Dates")
         ELSE Fill(rec, ff, "Joining Date", cell_value, "JoiningDate", "Dates")
    ELSE RuleQualification(rec, ff, cell_value)

RuleDates_overwriting(rec, ff, cell_value) ==
    IF (~ff["JoiningDate"] \/ ~ff["LeavingDate"]) /\ DateMatches(cell_value)
    THEN Fill(rec, ff, "Joining Date", cell_value, "JoiningDate", "Dates")
    ELSE RuleQualification(rec, ff, cell_value)

RuleDates(rec, ff, cell_value) ==
    IF (~ff["JoiningDate"] \/ ~ff["LeavingDate"]) /\ DateMatches(cell_value)
    THEN IF ~ff["JoiningDate"]
         THEN Fill(rec, ff, "Joining Date", cell_value, "JoiningDate", "Dates")
         ELSE Fill(rec, ff, "Leaving Date", cell_value, "LeavingDate", "Dates")
    ELSE RuleQualification(rec, ff, cell_value)

\* RuleWorking left out of the chain
RuleWorking_dropped(rec, ff, cell_value) == RuleDates(rec, ff, cell_value)

RuleWorking(rec, ff, cell_value) ==
    IF ~ff["Working"] /\ WorkingMatches(cell_value)
    THEN Fill(rec, ff, "Currently working with institution?", cell_value, "Working",
              "Working")
    ELSE RuleDates(rec, ff, cell_value)

RuleExperience(rec, ff, cell_value) ==
    IF ~ff["Experience"] /\ Experience4a(cell_value)
    THEN Fill(rec, ff, "Experience (in years)", convert_months_to_years(cell_value),
              "Experience", "Experience4a")
    ELSE IF ~ff["Experience"] /\ Experience4b(cell_value)
    THEN Fill(rec, ff, "Experience (in years)", convert_months_to_years(cell_value),
              "Experience", "Experience4b")
    ELSE IF ~ff["Experience"] /\ Experience4c(cell_value)
    THEN Fill(rec, ff, "Experience (in years)", FloatStr(cell_value) \o YearsWord,
              "Experience", "Experience4c")
    ELSE RuleWorking(rec, ff, cell_value)

RuleDesignation(rec, ff, cell_value) ==
    IF ~ff["Designation"] /\ DesignationMatches(cell_value)
    THEN Fill(rec, ff, "Designation", cell_value, "Designation", "Designation")
    ELSE RuleExperience(rec, ff, cell_value)

RuleGender(rec, ff, cell_value) ==
    IF ~ff["Gender"] /\ GenderMatches(cell_value)
    THEN Fill(rec, ff, "Gender",
              IF Upper(cell_value) \in { <<"M">>, <<"F">> } THEN Upper(cell_value)
              ELSE cell_value,
              "Gender", "Gender")
    ELSE RuleDesignation(rec, ff, cell_value)

RuleAge(rec, ff, cell_value) ==
    IF ~ff["Age"] /\ AgeMatches(cell_value)
    THEN Fill(rec, ff, "Age", IntToStr(safe_extract_number(cell_value).val), "Age", "Age")
    ELSE RuleGender(rec, ff, cell_value)

\* one iteration of the loop, on cell row[i] of the scripts (row[i + 1] here)
ScanCell(rec, ff, cell) ==
    LET cell_value == Strip(cell)
    IN  IF Skipped(cell_value) THEN CallState(rec, ff, <<>>, "skipped")
        ELSE RuleAge(rec, ff, cell_value)

(***************************************************************************)
(* The fallback pass.                                                      *)
(***************************************************************************)
\* list.remove(cell): the list without the first element equal to cell
RemoveFirst(cells, cell) ==
    LET k == CHOOSE k \in 1..Len(cells) :
                 cells[k] = cell /\ \A j \in 1..(k - 1) : cells[j] # cell
    IN  SubSeq(cells, 1, k - 1) \o SubSeq(cells, k + 1, Len(cells))

\* the first cell of cells that satisfies Test (the loop breaks there); 0: none
FirstIndex(cells, Test(_)) ==
    IF \E k \in 1..Len(cells) : Test(cells[k])
    THEN CHOOSE k \in 1..Len(cells) :
             Test(cells[k]) /\ \A j \in 1..(k - 1) : ~Test(cells[j])
    ELSE 0

CollectRemaining(row, rec) ==
    LET Kept(cell) ==
            LET cell_value == Strip(cell)
            IN  /\ cell_value # <<>>
                /\ cell_value \notin Values(rec)
                /\ Len(cell_value) > 1
                /\ Lower(cell_value) \notin NanNone
        stripped == [k \in 1..(Len(row) - 2) |-> Strip(row[k + 2])]
    IN  SelectSeq(stripped, Kept)

\* the fallback test without the age band
FallbackExperienceTest_noband(cell) ==
    /\ has_number(cell)
    /\ LET number == safe_extract_number(cell)
       IN  Truthy(number) /\ 1 <= number.val /\ number.val <= 600

FallbackExperienceTest(cell) ==
    /\ has_number(cell)
    /\ LET number == safe_extract_number(cell)
       IN  /\ Truthy(number) /\ 1 <= number.val /\ number.val <= 600
           /\ ~(18 <= number.val /\ number.val <= 80)

FallbackExperience(rec, rem) ==
    LET k == FirstIndex(rem, FallbackExperienceTest)
    IN  IF rec["Experience (in years)"] = <<>> /\ rem # <<>> /\ k # 0
        THEN [record |-> [rec EXCEPT !["Experience (in years)"] =
                              convert_months_to_years(rem[k])],
              remaining_cells |-> RemoveFirst(rem, rem[k])]
        ELSE [record |-> rec, remaining_cells |-> rem]

FallbackQualificationTest(cell) == Len(cell) > 2 /\ Len(cell) < 100

FallbackQualification(rec, rem) ==
    LET k == FirstIndex(rem, FallbackQualificationTest)
    IN  IF rec["Qualification"] = <<>> /\ rem # <<>> /\ k # 0
        THEN [record |-> [rec EXCEPT !["Qualification"] = rem[k]],
              remaining_cells |-> RemoveFirst(rem, rem[k])]
        ELSE [record |-> rec, remaining_cells |-> rem]

FallbackAssociationTest(cell) == Len(cell) > 1

FallbackAssociation(rec, rem) ==
    LET k == FirstIndex(rem, FallbackAssociationTest)
    IN  IF rec["Association type"] = <<>> /\ rem # <<>> /\ k # 0
        THEN [record |-> [rec EXCEPT !["Association type"] = rem[k]],
              remaining_cells |-> rem]
        ELSE [record |-> rec, remaining_cells |-> rem]

\* the whole call: the scan over row[2:], then the fallback pass.  The
\* result is [some |-> FALSE] for None (a record without a Name).
RECURSIVE ScanFrom(_, _, _, _)
ScanFrom(row, k, rec, ff) ==
    IF k > Len(row) THEN rec
    ELSE LET st == ScanCell(rec, ff, row[k])
         IN  ScanFrom(row, k + 1, st.record, st.filled_fields)

create_enhanced_record_with_years(row, institution_name, serial_num) ==
    LET scanned == ScanFrom(row, 3, NewRecord(row, institution_name, serial_num), NewFlags)
        fb1 == FallbackExperience(scanned, CollectRemaining(row, scanned))
        fb2 == FallbackQualification(fb1.record, fb1.remaining_cells)
        fb3 == FallbackAssociation(fb2.record, fb2.remaining_cells)
    IN  IF fb3.record["Name"] # <<>> THEN [some |-> TRUE, record |-> fb3.record]
        ELSE [some |-> FALSE, record |-> fb3.record]

(***************************************************************************)
(* Values of the variables an operation does not use.                      *)
(***************************************************************************)
NoRecord == <<>>
NoFlags == <<>>
NoVerdict == <<>>

PureIdle ==
    /\ norm_row = <<>> /\ i = 0 /\ record = NoRecord /\ filled_fields = NoFlags
    /\ remaining_cells = <<>> /\ fired = "" /\ verdict = NoVerdict
    /\ records = <<>> /\ df = <<>> /\ script = "" /\ encountered = <<>>
    /\ BatchIdle

\* all sequences over S of length at most n
SeqsUpTo(S, n) == UNION { [1..k -> S] : k \in 0..n }

(***************************************************************************)
(* safe_normalize_cell applied to a raw cell, and to its own result.       *)
(***************************************************************************)
MaxRawLen == 4
RawAlphabet == {" ", "\t", "\r", "\n", "a"}
RawCells == {Null} \cup SeqsUpTo(RawAlphabet, MaxRawLen)

\* two letters with spaces, line breaks and non-ASCII characters between them
AccentedCells ==
    { <<"a">> \o mid \o <<"b">> : mid \in SeqsUpTo({" ", "\n", NonAscii}, MaxRawLen - 1) }

InitNorm ==
    /\ pc = "norm_call" /\ arg \in RawCells \cup AccentedCells /\ out1 = <<>> /\ out2 = <<>>
    /\ PureIdle

NormalizeCell ==
    /\ pc = "norm_call"
    /\ out1' = safe_normalize_cell(arg)
    /\ pc' = "norm_again"
    /\ UNCHANGED <<arg, out2, norm_row, i, record, filled_fields, remaining_cells,
                   fired, verdict, records, df, script, encountered, batch_vars>>

NormalizeAgain ==
    /\ pc = "norm_again"
    /\ out2' = safe_normalize_cell(out1)
    /\ pc' = "norm_done"
    /\ UNCHANGED <<arg, out1, norm_row, i, record, filled_fields, remaining_cells,
                   fired, verdict, records, df, script, encountered, batch_vars>>

\* python.project3.py: clean_cell on the raw cell
CleanCell ==
    /\ pc = "norm_call"
    /\ out1' = clean_cell(arg)
    /\ pc' = "clean_again"
    /\ UNCHANGED <<arg, out2, norm_row, i, record, filled_fields, remaining_cells,
                   fired, verdict, records, df, script, encountered, batch_vars>>

\* clean_cell on its own result
CleanAgain ==
    /\ pc = "clean_again"
    /\ out2' = clean_cell(out1)
    /\ pc' = "clean_done"
    /\ UNCHANGED <<arg, out1, norm_row, i, record, filled_fields, remaining_cells,
                   fired, verdict, records, df, script, encountered, batch_vars>>

NextNorm == NormalizeCell \/ NormalizeAgain \/ CleanCell \/ CleanAgain
SpecNorm == InitNorm /\ [][NextNorm]_vars

(***************************************************************************)
(* convert_months_to_years applied to a duration cell, and to its result.  *)
(***************************************************************************)
MaxMonths == 40
ConvPrefixes == { <<>>, <<"0">>, <<"e", "x", "p", " ">> }
ConvSuffixes == { <<>>, MonthsWord, YearsWord, <<" ", "y", "r", "s">>, <<".", "5">> }
ConvInputs ==
    { pre \o IntToStr(n) \o suf :
        pre \in ConvPrefixes, n \in 0..MaxMonths, suf \in ConvSuffixes }
    \cup { <<"N", "A">>, <<"n", "i", "l">>, <<"-">> }

InitConv ==
    /\ pc = "conv_call" /\ arg \in ConvInputs /\ out1 = <<>> /\ out2 = <<>>
    /\ PureIdle

ConvertMonths ==
    /\ pc = "conv_call"
    /\ out1' = convert_months_to_years(arg)
    /\ pc' = "conv_again"
    /\ UNCHANGED <<arg, out2, norm_row, i, record, filled_fields, remaining_cells,
                   fired, verdict, records, df, script, encountered, batch_vars>>

ConvertAgain ==
    /\ pc = "conv_again"
    /\ out2' = convert_months_to_years(out1)
    /\ pc' = "conv_done"
    /\ UNCHANGED <<arg, out1, norm_row, i, record, filled_fields, remaining_cells,
                   fired, verdict, records, df, script, encountered, batch_vars>>

NextConv == ConvertMonths \/ ConvertAgain
SpecConv == InitConv /\ [][NextConv]_vars

(***************************************************************************)
(* create_enhanced_record_with_years, cell by cell: the scan loop, then    *)
(* the steps of the fallback pass, then the return.                        *)
(***************************************************************************)
MaxCells == 3
InstitutionName == <<"I", "I", "T">>
SerialCell == <<"3">>
NameCell == <<"J", "a", "n", "e", " ", "S", "m", "i", "t", "h">>
ExampleRow ==
    << <<"3">>,
       <<"J", "a", "n", "e", " ", "S", "m", "i", "t", "h">>,
       <<"3", "4">>,
       <<"A", "s", "s", "o", "c", "i", "a", "t", "e", " ", "P", "r", "o", "f", "e", "s", "s", "o", "r">>,
       <<"F">>,
       <<"M", ".", "T", "e", "c", "h">>,
       <<"4", "8", " ", "m", "o", "n", "t", "h", "s">>,
       <<"Y", "e", "s">>,
       <<"1", "2", "/", "2", "0", "1", "9">>,
       <<>>,
       <<"R", "e", "g", "u", "l", "a", "r">> >>
CellVocabulary ==
    { <<"3", "4">>,
      <<"F">>,
      <<"A", "s", "s", "o", "c", "i", "a", "t", "e", " ", "P", "r", "o", "f", "e", "s", "s", "o", "r">>,
      <<"4", "8", " ", "m", "o", "n", "t", "h", "s">>,
      <<"0", ".", "5">>,
      <<"Y", "e", "s">>,
      <<"1", "2", "/", "2", "0", "1", "9">>,
      <<"R", "e", "g", "u", "l", "a", "r">>,
      <<"n", "o", "n", "e">> }

\* the rows extract_from_single_pdf hands over: classified, serial within 1..10000
Extractable(row) ==
    /\ is_potential_faculty_row(row)
    /\ Truthy(safe_extract_number(row[1]))
    /\ safe_extract_number(row[1]).val <= 10000

\* cells that hold durations, a decimal and years
DurationVocabulary ==
    { <<"0", " ", "y", "r", "s">>,
      <<"3", ".", "5">>,
      <<"0", "5", "0", "0">>,
      <<"2", "0", "2", "0">> }

\* cells that hold ages, one of them zero-padded, and a year
AgeVocabulary ==
    { <<"3", "4">>,
      <<"4", "5">>,
      <<"0", "0", "4", "5">>,
      <<"2", "0", "2", "0">> }

\* a two-character cell, a word and a degree
ShortVocabulary ==
    { <<"a", "b">>,
      <<"R", "e", "g", "u", "l", "a", "r">>,
      <<"M", ".", "T", "e", "c", "h">> }

RecRows ==
    { row \in {ExampleRow} \cup
              { <<SerialCell, NameCell>> \o cells :
                    cells \in SeqsUpTo(CellVocabulary, MaxCells)
                                 \cup SeqsUpTo(DurationVocabulary, MaxCells)
                                 \cup SeqsUpTo(AgeVocabulary, MaxCells)
                                 \cup SeqsUpTo(ShortVocabulary, MaxCells) } :
        Extractable(row) }

InitRec ==
    /\ pc = "scan"
    /\ norm_row \in RecRows
    /\ i = 2
    /\ record = NewRecord(norm_row, InstitutionName, safe_extract_number(norm_row[1]).val)
    /\ filled_fields = NewFlags
    /\ remaining_cells = <<>>
    /\ fired = ""
    /\ verdict = NoVerdict
    /\ arg = <<>> /\ out1 = <<>> /\ out2 = <<>> /\ records = <<>> /\ df = <<>>
    /\ script = "extraction.py" /\ encountered = <<>>
    /\ BatchIdle

\* for i in range(2, max_cols): one cell
Scan ==
    /\ pc = "scan" /\ i < Len(norm_row)
    /\ LET st == ScanCell(record, filled_fields, norm_row[i + 1])
       IN  /\ record' = st.record
           /\ filled_fields' = st.filled_fields
           /\ fired' = st.fired
    /\ i' = i + 1
    /\ UNCHANGED <<pc, arg, out1, out2, norm_row, remaining_cells, verdict, records, df, script, encountered, batch_vars>>

\* the loop is over: remaining_cells is collected
Collect ==
    /\ pc = "scan" /\ i >= Len(norm_row)
    /\ remaining_cells' = CollectRemaining(norm_row, record)
    /\ fired' = ""
    /\ pc' = "fallback_experience"
    /\ UNCHANGED <<arg, out1, out2, norm_row, i, record, filled_fields, verdict, records, df, script, encountered, batch_vars>>

FillExperience ==
    /\ pc = "fallback_experience"
    /\ LET fb == FallbackExperience(record, remaining_cells)
       IN  record' = fb.record /\ remaining_cells' = fb.remaining_cells
    /\ pc' = "fallback_qualification"
    /\ UNCHANGED <<arg, out1, out2, norm_row, i, filled_fields, fired, verdict, records, df, script, encountered, batch_vars>>

FillQualification ==
    /\ pc = "fallback_qualification"
    /\ LET fb == FallbackQualification(record, remaining_cells)
       IN  record' = fb.record /\ remaining_cells' = fb.remaining_cells
    /\ pc' = "fallback_association"
    /\ UNCHANGED <<arg, out1, out2, norm_row, i, filled_fields, fired, verdict, records, df, script, encountered, batch_vars>>

FillAssociation ==
    /\ pc = "fallback_association"
    /\ LET fb == FallbackAssociation(record, remaining_cells)
       IN  record' = fb.record /\ remaining_cells' = fb.remaining_cells
    /\ pc' = "return"
    /\ UNCHANGED <<arg, out1, out2, norm_row, i, filled_fields, fired, verdict, records, df, script, encountered, batch_vars>>

\* return record if record["Name"] else None
Return ==
    /\ pc = "return"
    /\ verdict' = [some |-> record["Name"] # <<>>, record |-> record]
    /\ pc' = "done"
    /\ UNCHANGED <<arg, out1, out2, norm_row, i, record, filled_fields, remaining_cells,
                   fired, records, df, script, encountered, batch_vars>>

NextRec == Scan \/ Collect \/ FillExperience \/ FillQualification \/ FillAssociation \/ Return
SpecRec == InitRec /\ [][NextRec]_vars

(***************************************************************************)
(* The record constructors of the other three scripts.                     *)
(***************************************************************************)
\* python.project4.py and python.project3.py keep the experience cell as found
FieldsMonths == (Fields \ {"Experience (in years)"}) \cup {"Experience (in months)"}

NewRecordMonths(row, institution_name, serial_num) ==
    [f \in FieldsMonths |->
        CASE f = "S No" -> IntToStr(serial_num)
          [] f = "Name" -> IF Len(row) > 1 THEN Strip(row[2]) ELSE <<>>
          [] f = "Institution name" -> institution_name
          [] OTHER -> <<>>]

simple_gender_words ==
    { <<"m">>, <<"f">>, <<"m", "a", "l", "e">>,
      <<"f", "e", "m", "a", "l", "e">>, <<"m", "/", "f">> }

simple_designation_keywords ==
    { <<"p", "r", "o", "f", "e", "s", "s", "o", "r">>,
      <<"l", "e", "c", "t", "u", "r", "e", "r">>,
      <<"a", "s", "s", "i", "s", "t", "a", "n", "t">>,
      <<"a", "s", "s", "o", "c", "i", "a", "t", "e">>,
      <<"p", "r", "i", "n", "c", "i", "p", "a", "l">>,
      <<"h", "o", "d">>,
      <<"d", "e", "a", "n">> }

\* "month" in cell_value.lower() or "year" in cell_value.lower() or re.search(r"\d+", cell_value)
LooksLikeExperience(cell_value) ==
    \/ Contains(Lower(cell_value), <<"m", "o", "n", "t", "h">>)
    \/ Contains(Lower(cell_value), <<"y", "e", "a", "r">>)
    \/ has_number(cell_value)

\* one iteration of the loop of create_safe_record_with_years; st carries the
\* record and the experience_found flag
SafeYearsCell(st, cell_value) ==
    LET rec == st.record
        age == safe_extract_number(cell_value)
    IN  IF cell_value = <<>> THEN st
        ELSE IF rec["Age"] = <<>> /\ Truthy(age) /\ 18 <= age.val /\ age.val <= 80
             THEN [st EXCEPT !.record["Age"] = IntToStr(age.val)]
        ELSE IF rec["Gender"] = <<>> /\ Lower(cell_value) \in simple_gender_words
             THEN [st EXCEPT !.record["Gender"] = cell_value]
        ELSE IF rec["Designation"] = <<>>
                /\ \E keyword \in simple_designation_keywords :
                       Contains(Lower(cell_value), keyword)
             THEN [st EXCEPT !.record["Designation"] = cell_value]
        ELSE IF rec["Experience (in years)"] = <<>> /\ ~st.experience_found
                /\ LooksLikeExperience(cell_value)
             THEN [st EXCEPT !.record["Experience (in years)"] =
                                 convert_months_to_years(cell_value),
                             !.experience_found = TRUE]
        ELSE IF rec["Qualification"] = <<>> /\ Len(cell_value) > 1
             THEN [st EXCEPT !.record["Qualification"] = cell_value]
        ELSE st

\* for i in range(2, min(len(row), 12)), from cell k on
RECURSIVE SafeYearsScan(_, _, _)
SafeYearsScan(row, k, st) ==
    IF k > Min(Len(row), 12) THEN st
    ELSE SafeYearsScan(row, k + 1, SafeYearsCell(st, Strip(row[k])))

\* projectdatamulti.py
create_safe_record_with_years(row, institution_name, serial_num) ==
    LET first == [record |-> NewRecord(row, institution_name, serial_num),
                  experience_found |-> FALSE]
        last == IF Len(row) > 2 THEN SafeYearsScan(row, 3, first) ELSE first
    IN  IF last.record["Name"] # <<>> THEN [some |-> TRUE, record |-> last.record]
        ELSE [some |-> FALSE, record |-> last.record]

\* one iteration of the loop of create_safe_record
SafeCell(rec, cell_value) ==
    LET age == safe_extract_number(cell_value)
    IN  IF cell_value = <<>> THEN rec
        ELSE IF rec["Age"] = <<>> /\ Truthy(age) /\ 18 <= age.val /\ age.val <= 80
             THEN [rec EXCEPT !["Age"] = IntToStr(age.val)]
        ELSE IF rec["Gender"] = <<>> /\ Lower(cell_value) \in simple_gender_words
             THEN [rec EXCEPT !["Gender"] = cell_value]
        ELSE IF rec["Designation"] = <<>>
                /\ \E keyword \in simple_designation_keywords :
                       Contains(Lower(cell_value), keyword)
             THEN [rec EXCEPT !["Designation"] = cell_value]
        ELSE IF rec["Experience (in months)"] = <<>> /\ LooksLikeExperience(cell_value)
             THEN [rec EXCEPT !["Experience (in months)"] = cell_value]
        ELSE IF rec["Qualification"] = <<>> /\ Len(cell_value) > 1
             THEN [rec EXCEPT !["Qualification"] = cell_value]
        ELSE rec

RECURSIVE SafeScan(_, _, _)
SafeScan(row, k, rec) ==
    IF k > Min(Len(row), 12) THEN rec
    ELSE SafeScan(row, k + 1, SafeCell(rec, Strip(row[k])))

\* python.project4.py
create_safe_record(row, institution_name, serial_num) ==
    LET first == NewRecordMonths(row, institution_name, serial_num)
        last == IF Len(row) > 2 THEN SafeScan(row, 3, first) ELSE first
    IN  IF last["Name"] # <<>> THEN [some |-> TRUE, record |-> last]
        ELSE [some |-> FALSE, record |-> last]

\* clean_row[k] if len(clean_row) > k else "" (k counted as in the script)
CellOrEmpty(clean_row, k) == IF Len(clean_row) > k THEN clean_row[k + 1] ELSE <<>>

\* python.project3.py: the record is read off the columns by position
PositionalRecord(clean_row, institution, sno) ==
    [f \in FieldsMonths |->
        CASE f = "S No" -> IntToStr(sno)
          [] f = "Name" -> CellOrEmpty(clean_row, 1)
          [] f = "Age" -> CellOrEmpty(clean_row, 2)
          [] f = "Designation" -> CellOrEmpty(clean_row, 3)
          [] f = "Gender" -> CellOrEmpty(clean_row, 4)
          [] f = "Qualification" -> CellOrEmpty(clean_row, 5)
          [] f = "Experience (in months)" -> CellOrEmpty(clean_row, 6)
          [] f = "Currently working with institution?" -> CellOrEmpty(clean_row, 7)
          [] f = "Joining Date" -> CellOrEmpty(clean_row, 8)
          [] f = "Leaving Date" -> CellOrEmpty(clean_row, 9)
          [] f = "Association type" -> CellOrEmpty(clean_row, 10)
          [] OTHER -> institution]

(***************************************************************************)
(* One table row through the row loop of each script: normalize the cells, *)
(* classify the row, build the record and append it to the document's      *)
(* record list.                                                            *)
(***************************************************************************)
NoneMade == [some |-> FALSE, record |-> NoRecord]
RowOutcome(nr, ok, made) == [norm_row |-> nr, accepted |-> ok, made |-> made]

\* extraction.py keeps a record out of the list when an earlier one has the
\* same lowercased, stripped Name and the same S No
\* the duplicate test with the names compared as written
AppendUnlessDuplicate_aswritten(recs, rec) ==
    IF \E k \in 1..Len(recs) :
           /\ recs[k]["Name"] = rec["Name"]
           /\ recs[k]["S No"] = rec["S No"]
    THEN recs
    ELSE Append(recs, rec)

AppendUnlessDuplicate(recs, rec) ==
    IF \E k \in 1..Len(recs) :
           /\ Strip(Lower(recs[k]["Name"])) = Strip(Lower(rec["Name"]))
           /\ recs[k]["S No"] = rec["S No"]
    THEN recs
    ELSE Append(recs, rec)

\* extraction.py
extract_row(raw_row) ==
    LET nr == [k \in 1..Len(raw_row) |-> safe_normalize_cell(raw_row[k])]
        serial_num == safe_extract_number(nr[1])
    IN  IF raw_row = <<>> THEN RowOutcome(<<>>, FALSE, NoneMade)
        ELSE IF ~is_potential_faculty_row(nr) THEN RowOutcome(nr, FALSE, NoneMade)
        ELSE IF ~Truthy(serial_num) \/ serial_num.val > 10000
             THEN RowOutcome(nr, TRUE, NoneMade)
        ELSE RowOutcome(nr, TRUE,
                 create_enhanced_record_with_years(nr, InstitutionName, serial_num.val))

\* the row loop of projectdatamulti.py without the ceiling on the serial number
extract_row_multi_noceiling(raw_row) ==
    LET nr == [k \in 1..Len(raw_row) |-> safe_normalize_cell(raw_row[k])]
        serial_num == safe_extract_number(nr[1])
    IN  IF raw_row = <<>> THEN RowOutcome(<<>>, FALSE, NoneMade)
        ELSE IF ~is_potential_faculty_row_multi(nr) THEN RowOutcome(nr, FALSE, NoneMade)
        ELSE IF ~Truthy(serial_num) THEN RowOutcome(nr, TRUE, NoneMade)
        ELSE RowOutcome(nr, TRUE,
                 create_safe_record_with_years(nr, InstitutionName, serial_num.val))

\* projectdatamulti.py
extract_row_multi(raw_row) ==
    LET nr == [k \in 1..Len(raw_row) |-> safe_normalize_cell(raw_row[k])]
        serial_num == safe_extract_number(nr[1])
    IN  IF raw_row = <<>> THEN RowOutcome(<<>>, FALSE, NoneMade)
        ELSE IF ~is_potential_faculty_row_multi(nr) THEN RowOutcome(nr, FALSE, NoneMade)
        ELSE IF ~Truthy(serial_num) \/ serial_num.val > 10000
             THEN RowOutcome(nr, TRUE, NoneMade)
        ELSE RowOutcome(nr, TRUE,
                 create_safe_record_with_years(nr, InstitutionName, serial_num.val))

\* python.project4.py
extract_row_p4(raw_row) ==
    LET nr == [k \in 1..Len(raw_row) |-> safe_normalize_cell(raw_row[k])]
        serial_num == safe_extract_number(nr[1])
    IN  IF raw_row = <<>> THEN RowOutcome(<<>>, FALSE, NoneMade)
        ELSE IF ~is_potential_faculty_row_p4(nr) THEN RowOutcome(nr, FALSE, NoneMade)
        ELSE IF ~Truthy(serial_num) \/ serial_num.val > 10000
             THEN RowOutcome(nr, TRUE, NoneMade)
        ELSE RowOutcome(nr, TRUE, create_safe_record(nr, InstitutionName, serial_num.val))

\* python.project3.py
extract_row_p3(raw_row) ==
    LET clean_row == [k \in 1..Len(raw_row) |-> clean_cell(raw_row[k])]
        sno == get_number(clean_row[1])
    IN  IF raw_row = <<>> THEN RowOutcome(<<>>, FALSE, NoneMade)
        ELSE IF ~is_data_row(clean_row) THEN RowOutcome(clean_row, FALSE, NoneMade)
        ELSE RowOutcome(clean_row, TRUE,
                 [some |-> TRUE,
                  record |-> PositionalRecord(clean_row, clean_cell(InstitutionName), sno.val)])

MaxRowLen == 5
LongName(n) == [k \in 1..n |-> "a"]
SerialCells ==
    { Null, <<"1">>, <<"A", "B", "C">>, <<"0">>, <<"9", "9", "9", "9">>,
      <<"1", "0", "0", "0", "0">>, <<"1", "0", "0", "0", "1">>, <<"0", "0", "7">>,
      <<"1", "2", "3", "4", "5", "6", "7", "8", "9", "0", "1">> }
NameCells ==
    { <<>>, <<"J">>, <<"J", "o", "h", "n", " ", "D", "o", "e">>, <<"1", "2", "3", "4", "5">>,
      <<"G", "r", "a", "n", "d", " ", "T", "o", "t", "a", "l">>, <<"J", "7">> }
\* names at and just over the length limit of extraction.py
LongNameCells == { LongName(100), LongName(101) }
OtherCells == { Null, <<"3", "4">>, <<"B", "u", "i", "l", "t">> }
ClsRows ==
    {<<>>} \cup { <<a>> : a \in SerialCells }
    \cup UNION { { [k \in 1..n |-> IF k = 1 THEN a ELSE IF k = 2 THEN b ELSE t[k - 2]] :
                       a \in SerialCells, b \in NameCells, t \in [1..(n - 2) -> OtherCells] } :
                 n \in 2..MaxRowLen }
    \cup { [k \in 1..n |-> IF k = 1 THEN <<"1">> ELSE IF k = 2 THEN b ELSE <<"3", "4">>] :
               b \in LongNameCells, n \in 2..MaxRowLen }

InitCls ==
    /\ pc = "row" /\ arg \in ClsRows /\ script = ""
    /\ out1 = <<>> /\ out2 = <<>>
    /\ norm_row = <<>> /\ i = 0 /\ record = NoRecord /\ filled_fields = NoFlags
    /\ remaining_cells = <<>> /\ fired = "" /\ verdict = NoVerdict
    /\ records = <<>> /\ df = <<>> /\ encountered = <<>>
    /\ BatchIdle

\* what the row loop of one script does with the row
RowStep(name, o) ==
    /\ pc = "row"
    /\ script' = name
    /\ norm_row' = o.norm_row
    /\ verdict' = [accepted |-> o.accepted, some |-> o.made.some,
                   record |-> IF o.made.some THEN o.made.record ELSE NoRecord]
    /\ records' = IF ~o.made.some THEN records
                  ELSE IF name = "extraction.py"
                       THEN AppendUnlessDuplicate(records, o.made.record)
                  ELSE Append(records, o.made.record)
    /\ encountered' = IF o.made.some THEN Append(encountered, o.made.record)
                      ELSE encountered
    /\ pc' = "row_done"
    /\ UNCHANGED <<arg, out1, out2, i, record, filled_fields, remaining_cells, fired, df, batch_vars>>

ExtractRow == RowStep("extraction.py", extract_row(arg))
ExtractRowMulti == RowStep("projectdatamulti.py", extract_row_multi(arg))
ExtractRowP4 == RowStep("python.project4.py", extract_row_p4(arg))
ExtractRowP3 == RowStep("python.project3.py", extract_row_p3(arg))

NextCls == ExtractRow \/ ExtractRowMulti \/ ExtractRowP4 \/ ExtractRowP3
SpecCls == InitCls /\ [][NextCls]_vars

(***************************************************************************)
(* Assembly: the record list of a run, then the save function of the       *)
(* script: drop_duplicates, sort_values and the Final Serial column.       *)
(***************************************************************************)
\* the characters of the institution names, in code point order
CodeOrder == <<" ">> \o DigitChars \o UpperChars \o LowerChars
Ord(c) == CHOOSE k \in 1..Len(CodeOrder) : CodeOrder[k] = c

\* a < b for two str values
StrLess(a, b) ==
    LET differ == { k \in 1..Min(Len(a), Len(b)) : a[k] # b[k] }
    IN  IF differ = {} THEN Len(a) < Len(b)
        ELSE LET k == CHOOSE k \in differ : \A j \in differ : k <= j
             IN  Ord(a[k]) < Ord(b[k])

\* pd.to_numeric(text, errors='coerce'), then fillna(fill)
ToNumeric(text, fill) ==
    IF text # <<>> /\ \A k \in 1..Len(text) : IsDigit(text[k]) THEN ParseInt(text) ELSE fill

\* two rows agree on the columns of subset
SameOn(subset, a, b) == \A f \in subset : a[f] = b[f]

\* df.drop_duplicates(subset=..., keep="last")
DropDuplicates_keeplast(recs, subset) ==
    LET indexed == [k \in 1..Len(recs) |-> [idx |-> k, rec |-> recs[k]]]
        Kept(e) == ~\E j \in (e.idx + 1)..Len(recs) : SameOn(subset, recs[j], e.rec)
        kept == SelectSeq(indexed, Kept)
    IN  [k \in 1..Len(kept) |-> kept[k].rec]

\* df.drop_duplicates(subset=..., keep="first")
DropDuplicates(recs, subset) ==
    LET indexed == [k \in 1..Len(recs) |-> [idx |-> k, rec |-> recs[k]]]
        Kept(e) == ~\E j \in 1..(e.idx - 1) : SameOn(subset, recs[j], e.rec)
        kept == SelectSeq(indexed, Kept)
    IN  [k \in 1..Len(kept) |-> kept[k].rec]

\* df.sort_values(["S No Numeric"]): one key, so the default quicksort, which
\* may leave rows with equal keys in any order
SortBySNo(rows, fill) ==
    LET n == Len(rows)
        Key(k) == ToNumeric(rows[k]["S No"], fill)
        orders == { p \in [1..n -> 1..n] :
                      /\ \A a, b \in 1..n : a # b => p[a] # p[b]
                      /\ \A a \in 1..(n - 1) : Key(p[a]) <= Key(p[a + 1]) }
    IN  { [k \in 1..n |-> rows[p[k]]] : p \in orders }

\* df.sort_values(["Institution name", <numeric S No>]): several keys, so a
\* stable sort; rows equal on both keys keep their order
SortByInstitutionAndSNo(rows, fill) ==
    LET n == Len(rows)
        Key(k) == ToNumeric(rows[k]["S No"], fill)
        Inst(k) == rows[k]["Institution name"]
        Before(j, k) ==
            \/ StrLess(Inst(j), Inst(k))
            \/ Inst(j) = Inst(k) /\ (Key(j) < Key(k) \/ (Key(j) = Key(k) /\ j < k))
        Rank(k) == Cardinality({ j \in 1..n : Before(j, k) })
    IN  [r \in 1..n |-> rows[CHOOSE k \in 1..n : Rank(k) = r - 1]]

\* the Final Serial column filled with the numeric S No instead of 1..N
\* an assembly that renumbers: S No is overwritten with the new serial
WithFinalSerial_renumbering(rows) ==
    [k \in 1..Len(rows) |->
        [f \in DOMAIN rows[k] \cup {"Final Serial"} |->
            IF f = "Final Serial" THEN k
            ELSE IF f = "S No" THEN IntToStr(k) ELSE rows[k][f]]]

WithFinalSerial_original(rows) ==
    [k \in 1..Len(rows) |->
        [f \in DOMAIN rows[k] \cup {"Final Serial"} |->
            IF f = "Final Serial" THEN ToNumeric(rows[k]["S No"], 999999) ELSE rows[k][f]]]

\* df.insert(0, "Final Serial", range(1, len(df) + 1)) after reset_index
WithFinalSerial(rows) ==
    [k \in 1..Len(rows) |->
        [f \in DOMAIN rows[k] \cup {"Final Serial"} |->
            IF f = "Final Serial" THEN k ELSE rows[k][f]]]

\* extraction.py: the tables the save can produce
save_individual_college_excel(recs) ==
    { WithFinalSerial(sorted) : sorted \in SortBySNo(DropDuplicates(recs, {"Name"}), 999999) }

\* projectdatamulti.py
save_individual_college_excel_multi(recs) ==
    { WithFinalSerial(sorted) : sorted \in SortBySNo(DropDuplicates(recs, {"Name"}), 999999) }

\* python.project4.py
save_with_multiple_fallbacks(recs) ==
    WithFinalSerial(SortByInstitutionAndSNo(
        DropDuplicates(recs, {"Institution name", "Name"}), 999999))

\* python.project3.py
save_results(all_records) ==
    WithFinalSerial(SortByInstitutionAndSNo(
        DropDuplicates(all_records, {"Institution name", "Name"}), 9999))

MaxRecords == 3
Scripts == { "extraction.py", "projectdatamulti.py", "python.project4.py", "python.project3.py" }
PerCollege == { "extraction.py", "projectdatamulti.py" }
OtherInstitution == <<"N", "I", "T">>
AsmNames == { <<"A", "l">>, <<"a", "l">>, <<"B", "o">> }
AsmSerials == { <<"1">>, <<"2">> }
AsmAges == { <<"3", "0">>, <<"3", "1">> }
AsmFields(sc) == IF sc \in PerCollege THEN Fields ELSE FieldsMonths
AsmRecord(sc, sno, name, age, inst) ==
    [f \in AsmFields(sc) |->
        CASE f = "S No" -> sno
          [] f = "Name" -> name
          [] f = "Age" -> age
          [] f = "Institution name" -> inst
          [] OTHER -> <<>>]
\* extraction.py and projectdatamulti.py save one document at a time; the other
\* two scripts save the records of all documents together, here those of a
\* second document as well
AsmRecords(sc) ==
    { AsmRecord(sc, sno, name, age, InstitutionName) :
          sno \in AsmSerials, name \in AsmNames, age \in AsmAges }
    \cup (IF sc \in PerCollege THEN {}
          ELSE { AsmRecord(sc, sno, <<"A", "l">>, <<"3", "0">>, OtherInstitution) : sno \in AsmSerials })

InitAsm ==
    /\ pc = "collect" /\ script \in Scripts
    /\ encountered = <<>> /\ records = <<>> /\ df = <<>>
    /\ arg = <<>> /\ out1 = <<>> /\ out2 = <<>>
    /\ norm_row = <<>> /\ i = 0 /\ record = NoRecord /\ filled_fields = NoFlags
    /\ remaining_cells = <<>> /\ fired = "" /\ verdict = NoVerdict
    /\ BatchIdle

\* the row loop has built a record: extraction.py appends it unless it repeats
\* an earlier one, the other scripts append it.  python.project4.py reads the
\* documents in sorted order; python.project3.py in the order of os.listdir.
AppendRecord ==
    /\ pc = "collect"
    /\ Len(encountered) < MaxRecords
    /\ \E rec \in AsmRecords(script) :
        /\ script = "python.project4.py" /\ records # <<>>
               => ~StrLess(rec["Institution name"],
                           records[Len(records)]["Institution name"])
        /\ encountered' = Append(encountered, rec)
        /\ records' = IF script = "extraction.py" THEN AppendUnlessDuplicate(records, rec)
                      ELSE Append(records, rec)
    /\ UNCHANGED <<pc, arg, out1, out2, norm_row, i, record, filled_fields,
                   remaining_cells, fired, verdict, df, script, batch_vars>>

SaveCollege ==
    /\ pc = "collect" /\ script = "extraction.py" /\ records # <<>>
    /\ df' \in save_individual_college_excel(records)
    /\ pc' = "saved"
    /\ UNCHANGED <<arg, out1, out2, norm_row, i, record, filled_fields, remaining_cells,
                   fired, verdict, records, script, encountered, batch_vars>>

SaveCollegeMulti ==
    /\ pc = "collect" /\ script = "projectdatamulti.py" /\ records # <<>>
    /\ df' \in save_individual_college_excel_multi(records)
    /\ pc' = "saved"
    /\ UNCHANGED <<arg, out1, out2, norm_row, i, record, filled_fields, remaining_cells,
                   fired, verdict, records, script, encountered, batch_vars>>

SaveWithFallbacks ==
    /\ pc = "collect" /\ script = "python.project4.py" /\ records # <<>>
    /\ df' = save_with_multiple_fallbacks(records)
    /\ pc' = "saved"
    /\ UNCHANGED <<arg, out1, out2, norm_row, i, record, filled_fields, remaining_cells,
                   fired, verdict, records, script, encountered, batch_vars>>

SaveResults ==
    /\ pc = "collect" /\ script = "python.project3.py" /\ records # <<>>
    /\ df' = save_results(records)
    /\ pc' = "saved"
    /\ UNCHANGED <<arg, out1, out2, norm_row, i, record, filled_fields, remaining_cells,
                   fired, verdict, records, script, encountered, batch_vars>>

NextAsm == AppendRecord \/ SaveCollege \/ SaveCollegeMulti \/ SaveWithFallbacks \/ SaveResults
SpecAsm == InitAsm /\ [][NextAsm]_vars


(***************************************************************************)
(* The batch run of extraction.py: process_all_pdfs_separately takes the    *)
(* documents in sorted order; extract_from_single_pdf goes through the      *)
(* pages of one document; save_individual_college_excel writes its table.   *)
(***************************************************************************)
MaxPages == 3

\* a table row that yields a record, and one whose handling raises
Row(sno, name) == [raises |-> FALSE, sno |-> sno, name |-> name]
RaisingRow == [raises |-> TRUE, sno |-> <<>>, name |-> <<>>]

\* a page: what extract_tables() does, the table it returns, and what the
\* second call, with the lines_strict settings, does
PageRaises == [extract |-> "raises", table |-> <<>>, lines_strict |-> "nothing"]
PageTwice ==
    [extract |-> "ok", lines_strict |-> "same",
     table |-> << Row(<<"1">>, <<"A", "l">>), Row(<<"2">>, <<"B", "o">>) >>]
PageBadRow ==
    [extract |-> "ok", lines_strict |-> "nothing",
     table |-> << Row(<<"1">>, <<"a", "l">>), RaisingRow, Row(<<"2">>, <<"B", "o">>) >>]
PageLate ==
    [extract |-> "ok", lines_strict |-> "raises",
     table |-> << Row(<<"2">>, <<"B", "o">>), Row(<<"2">>, <<"A", "l">>) >>]
PageOneRow ==
    [extract |-> "ok", lines_strict |-> "nothing",
     table |-> << Row(<<"2">>, <<"a", "l">>) >>]
PageVocabulary == { PageRaises, PageTwice, PageBadRow, PageLate, PageOneRow }

\* a document: whether pdfplumber.open succeeds, its pages, and whether
\* to_excel succeeds on its table
Documents ==
    { [opens |-> TRUE, pages |-> pages, saves |-> saves] :
          pages \in SeqsUpTo(PageVocabulary, MaxPages), saves \in BOOLEAN }
    \cup { [opens |-> FALSE, pages |-> <<>>, saves |-> TRUE] }

\* sorted(pdf_files), by the stems of the paths
Batches ==
    { <<InstitutionName>>, <<OtherInstitution>>, <<InstitutionName, OtherInstitution>> }

\* institution_name = pdf_path.stem of the document taken up
institution_name == IF doc = 0 THEN <<>> ELSE pdf_files[doc]

\* records = []
NewRecordList_carried(previous) == previous

NewRecordList(previous) == <<>>

\* the row loop over the rows of one table, up to the row that raises
RECURSIVE HandleRows(_, _, _)
HandleRows(recs, rows, institution) ==
    IF rows = <<>> THEN [records |-> recs, error |-> FALSE]
    ELSE IF Head(rows).raises THEN [records |-> recs, error |-> TRUE]
    ELSE HandleRows(AppendUnlessDuplicate(recs,
                        AsmRecord("extraction.py", Head(rows).sno, Head(rows).name,
                                  <<"3", "0">>, institution)),
                    Tail(rows), institution)

\* all_tables of a page: the tables of the default strategy, then those of the
\* lines_strict strategy (an exception of the second call is dropped)
AllTables(page) ==
    (IF page.table # <<>> THEN <<page.table>> ELSE <<>>)
    \o (IF page.table # <<>> /\ page.lines_strict = "same" THEN <<page.table>> ELSE <<>>)

\* the rows of the tables that have at least two rows
RECURSIVE RowsOfTables(_)
RowsOfTables(tables) ==
    IF tables = <<>> THEN <<>>
    ELSE (IF Len(Head(tables)) < 2 THEN <<>> ELSE Head(tables)) \o RowsOfTables(Tail(tables))

\* the body of the page loop without its try: an exception ends the loop
extract_page_unprotected(recs, page, institution) ==
    IF page.extract = "raises" THEN [records |-> recs, error |-> TRUE, continues |-> FALSE]
    ELSE LET handled == HandleRows(recs, RowsOfTables(AllTables(page)), institution)
         IN  [records |-> handled.records, error |-> handled.error,
              continues |-> ~handled.error]

\* the body of the page loop: an exception leaves the page and the loop goes on
extract_page(recs, page, institution) ==
    IF page.extract = "raises" THEN [records |-> recs, error |-> TRUE, continues |-> TRUE]
    ELSE LET handled == HandleRows(recs, RowsOfTables(AllTables(page)), institution)
         IN  [records |-> handled.records, error |-> handled.error, continues |-> TRUE]

\* re.sub(r'[<>:"/\\|?*]', '_', institution_name)
safe_filename(name) ==
    [k \in 1..Len(name) |->
        IF name[k] \in { "<", ">", ":", "\"", "/", "\\", "|", "?", "*" } THEN "_"
        ELSE name[k]]

excel_path(name) == safe_filename(name) \o <<"_", "F", "a", "c", "u", "l", "t", "y", "_", "D", "a", "t", "a", ".", "x", "l", "s", "x">>

\* the candidate directories, in the order in which they are tried
get_safe_output_directory == <<"Desktop", "Documents", "Downloads", ".", "TEMP">>

\* the candidates os.makedirs can create: none, or the current and the
\* temporary directory only
DirectoryOutcomes == { {}, { ".", "TEMP" } }

\* the first candidate that os.makedirs creates, output_dir = None otherwise
FirstCreated(output_directories, can) ==
    IF \E k \in 1..Len(output_directories) : output_directories[k] \in can
    THEN output_directories[CHOOSE k \in 1..Len(output_directories) :
             /\ output_directories[k] \in can
             /\ \A j \in 1..(k - 1) : output_directories[j] \notin can]
    ELSE ""

InitBatch ==
    /\ pc = "make_directory" /\ pdf_files \in Batches
    /\ creatable \in DirectoryOutcomes /\ output_dir = ""
    /\ SectionIdle
    /\ doc = 0 /\ pdf = <<>> /\ page_num = 0
    /\ created_files = <<>> /\ total_faculty = 0
    /\ records = <<>> /\ df = <<>> /\ script = "extraction.py" /\ encountered = <<>>
    /\ arg = <<>> /\ out1 = <<>> /\ out2 = <<>>
    /\ norm_row = <<>> /\ i = 0 /\ record = NoRecord /\ filled_fields = NoFlags
    /\ remaining_cells = <<>> /\ fired = "" /\ verdict = NoVerdict

\* the output directory is created, or none can be and the run returns False
MakeDirectory ==
    /\ pc = "make_directory"
    /\ output_dir' = FirstCreated(get_safe_output_directory, creatable)
    /\ pc' = IF output_dir' = "" THEN "returned_false" ELSE "next_document"
    /\ UNCHANGED <<arg, out1, out2, norm_row, i, record, filled_fields, remaining_cells,
                   fired, verdict, script, encountered, records, df, pdf_files, doc, pdf,
                   page_num, created_files, total_faculty, creatable, section_vars>>

\* the next document is taken up and opens
OpenDocument ==
    /\ pc = "next_document" /\ doc < Len(pdf_files)
    /\ \E document \in Documents : document.opens /\ pdf' = document
    /\ doc' = doc + 1
    /\ records' = NewRecordList(records)
    /\ page_num' = 0
    /\ pc' = "pages"
    /\ UNCHANGED <<arg, out1, out2, norm_row, i, record, filled_fields, remaining_cells,
                   fired, verdict, script, encountered, df, pdf_files, created_files, total_faculty,
                   creatable, output_dir, section_vars>>

\* pdfplumber.open raises: extract_from_single_pdf returns its empty list and
\* process_all_pdfs_separately goes to the next document
OpenFails ==
    /\ pc = "next_document" /\ doc < Len(pdf_files)
    /\ \E document \in Documents : ~document.opens /\ pdf' = document
    /\ doc' = doc + 1
    /\ records' = NewRecordList(records)
    /\ page_num' = 0
    /\ pc' = "next_document"
    /\ UNCHANGED <<arg, out1, out2, norm_row, i, record, filled_fields, remaining_cells,
                   fired, verdict, script, encountered, df, pdf_files, created_files, total_faculty,
                   creatable, output_dir, section_vars>>

\* one turn of the page loop
ProcessPage ==
    /\ pc = "pages" /\ page_num < Len(pdf.pages)
    /\ LET o == extract_page(records, pdf.pages[page_num + 1], institution_name)
       IN  /\ records' = o.records
           /\ pc' = IF o.continues THEN "pages" ELSE "extracted"
    /\ page_num' = page_num + 1
    /\ UNCHANGED <<arg, out1, out2, norm_row, i, record, filled_fields, remaining_cells,
                   fired, verdict, script, encountered, df, pdf_files, doc, pdf, created_files, total_faculty,
                   creatable, output_dir, section_vars>>

\* the page loop is over: return records, institution_name
ReturnRecords ==
    /\ pc = "pages" /\ page_num = Len(pdf.pages)
    /\ pc' = "extracted"
    /\ UNCHANGED <<arg, out1, out2, norm_row, i, record, filled_fields, remaining_cells,
                   fired, verdict, script, encountered, records, df, batch_vars>>

\* if records: save_individual_college_excel; the table is written, or
\* to_excel raises and the function returns None
SaveDocument ==
    /\ pc = "extracted"
    /\ IF records # <<>> /\ pdf.saves
       THEN /\ df' \in save_individual_college_excel(records)
            /\ created_files' = Append(created_files, excel_path(institution_name))
            /\ total_faculty' = total_faculty + Len(df')
       ELSE UNCHANGED <<df, created_files, total_faculty>>
    /\ pc' = "next_document"
    /\ UNCHANGED <<arg, out1, out2, norm_row, i, record, filled_fields, remaining_cells,
                   fired, verdict, script, encountered, records, pdf_files, doc, pdf, page_num,
                   creatable, output_dir, section_vars>>

\* a run that reports success whenever it gets through the documents
Complete_optimistic ==
    /\ pc = "next_document" /\ doc = Len(pdf_files)
    /\ pc' = "returned_true"
    /\ UNCHANGED <<arg, out1, out2, norm_row, i, record, filled_fields, remaining_cells,
                   fired, verdict, script, encountered, records, df, batch_vars>>

\* the loop over the documents is over: True when a workbook was written
Complete ==
    /\ pc = "next_document" /\ doc = Len(pdf_files)
    /\ pc' = IF created_files # <<>> THEN "returned_true" ELSE "returned_false"
    /\ UNCHANGED <<arg, out1, out2, norm_row, i, record, filled_fields, remaining_cells,
                   fired, verdict, script, encountered, records, df, batch_vars>>

NextBatch ==
    MakeDirectory \/ OpenDocument \/ OpenFails \/ ProcessPage \/ ReturnRecords \/ SaveDocument \/ Complete
SpecBatch == InitBatch /\ [][NextBatch]_vars

(***************************************************************************)
(* project.py: the qualification test and the Faculty Details section.     *)
(***************************************************************************)
valid_terms ==
    { <<"p", "h", ".", "d">>,
      <<"p", "h", "d">>,
      <<"m", ".", "t", "e", "c", "h">>,
      <<"m", "t", "e", "c", "h">>,
      <<"m", ".", "e", ".">>,
      <<"m", "e">> }
invalid_terms ==
    { <<"b", ".", "t", "e", "c", "h">>,
      <<"b", ".", "e">>,
      <<"b", "e">> }

is_valid_qualification(q) ==
    IF q = Null \/ q = <<>> THEN FALSE
    ELSE LET q_lower == Lower(Strip(q))
             has_valid == ContainsAny(q_lower, valid_terms)
             has_invalid == ContainsAny(q_lower, invalid_terms)
         IN  has_valid /\ ~has_invalid

\* degrees, alone and followed by a subject or a second degree, in three cases
QualDegrees ==
    { <<"M", ".", "T", "e", "c", "h">>,
      <<"M", ".", "E", ".">>,
      <<"M", ".", "E">>,
      <<"P", "h", ".", "D">>,
      <<"B", ".", "T", "e", "c", "h">>,
      <<"B", ".", "E">>,
      <<"M", ".", "S", "c">>,
      <<"M", "B", "A">>,
      <<>> }
QualSubjects ==
    { <<>>,
      <<" ", "C", "o", "m", "m", "e", "r", "c", "e">>,
      <<" ", "E", "m", "b", "e", "d", "d", "e", "d", " ", "S", "y", "s", "t", "e", "m", "s">>,
      <<" ", "P", "h", "y", "s", "i", "c", "s">>,
      <<",", " ", "B", ".", "E">>,
      <<",", " ", "P", "h", ".", "D">> }
QualInputs ==
    {Null} \cup UNION { { d \o t, Lower(d \o t), Upper(d \o t) } :
                          d \in QualDegrees, t \in QualSubjects }

InitQual ==
    /\ pc = "qual_call" /\ arg \in QualInputs /\ out1 = <<>> /\ out2 = <<>>
    /\ PureIdle

\* is_valid_qualification(qualification)
CheckQualification ==
    /\ pc = "qual_call"
    /\ verdict' = [accepted |-> is_valid_qualification(arg)]
    /\ pc' = "qual_done"
    /\ UNCHANGED <<arg, out1, out2, norm_row, i, record, filled_fields, remaining_cells,
                   fired, records, df, script, encountered, batch_vars>>

NextQual == CheckQualification
SpecQual == InitQual /\ [][NextQual]_vars

\* int(text) of a stripped cell: an optional sign and digits, ValueError otherwise
int_of(text) ==
    IF FullMatch(<<AtLeast("d", 1)>>, text) THEN Some(ParseInt(text))
    ELSE IF Len(text) > 1 /\ text[1] = "+" /\ FullMatch(<<AtLeast("d", 1)>>, Tail(text))
    THEN Some(ParseInt(Tail(text)))
    ELSE IF Len(text) > 1 /\ text[1] = "-" /\ FullMatch(<<AtLeast("d", 1)>>, Tail(text))
    THEN Some(0 - ParseInt(Tail(text)))
    ELSE NoNumber

\* cell.strip() if cell else ""
StripCell(cell) == IF cell = Null THEN <<>> ELSE Strip(cell)

\* the rows with a non-blank cell, their cells stripped
cleaned_table(table) ==
    LET NotBlank(r) == \E k \in 1..Len(r) : StripCell(r[k]) # <<>>
        kept == SelectSeq(table, NotBlank)
    IN  [k \in 1..Len(kept) |-> [c \in 1..Len(kept[k]) |-> StripCell(kept[k][c])]]

\* [h.lower().strip() for h in column_names].index(name), from 1; 0: ValueError
HeaderIndex(names, name) ==
    LET Is(h) == Strip(Lower(h)) = name
    IN  FirstIndex(names, Is)
age_idx(names) == HeaderIndex(names, <<"a", "g", "e">>)
qual_idx(names) ==
    HeaderIndex(names, <<"q", "u", "a", "l", "i", "f", "i", "c", "a", "t", "i", "o", "n">>)

\* row += [""] * (len(column_names) - len(row))
PadRow(r, names) ==
    IF Len(r) < Len(names) THEN r \o [k \in 1..(Len(names) - Len(r)) |-> <<>>] ELSE r

\* the row loop: the rows of age at most 65 with a valid qualification are kept
RECURSIVE ProcessRows(_, _, _)
ProcessRows(rows, table_data, names) ==
    IF table_data = <<>> THEN rows
    ELSE LET r == PadRow(Head(table_data), names)
             age == int_of(r[age_idx(names)])
         IN  IF age.some /\ age.val <= 65 /\ is_valid_qualification(r[qual_idx(names)])
             THEN ProcessRows(Append(rows, r), Tail(table_data), names)
             ELSE ProcessRows(rows, Tail(table_data), names)

\* the state of the call: the four locals of extract_faculty_from_pdf
SectionState(in_section, found, names, rows) ==
    [in_faculty_section |-> in_section, headers_found |-> found,
     column_names |-> names, data_rows |-> rows]

\* one table of a page of the section
extract_section_table(st, table) ==
    LET cleaned == cleaned_table(table)
    IN  IF cleaned = <<>> THEN st
        ELSE IF ~st.headers_found
        THEN IF age_idx(cleaned[1]) = 0 \/ qual_idx(cleaned[1]) = 0
             THEN SectionState(st.in_faculty_section, FALSE, cleaned[1], st.data_rows)
             ELSE SectionState(st.in_faculty_section, TRUE, cleaned[1],
                               ProcessRows(st.data_rows, Tail(cleaned), cleaned[1]))
        ELSE SectionState(st.in_faculty_section, TRUE, st.column_names,
                          ProcessRows(st.data_rows, cleaned, st.column_names))

RECURSIVE extract_section_tables(_, _)
extract_section_tables(st, tables) ==
    IF tables = <<>> THEN st
    ELSE extract_section_tables(extract_section_table(st, Head(tables)), Tail(tables))

\* the section test without its stop at Financial Resources
SectionTest_nostop(in_section, text) ==
    [in_faculty_section |-> in_section \/ "Faculty Details" \in text, stop |-> FALSE]

\* the two tests on the text of a page
SectionTest(in_section, text) ==
    LET now == in_section \/ "Faculty Details" \in text
    IN  [in_faculty_section |-> now, stop |-> now /\ "Financial Resources" \in text]

\* the body of the page loop; stop: the loop is left
extract_section_page(st, page) ==
    LET test == SectionTest(st.in_faculty_section, page.text)
        entered == SectionState(test.in_faculty_section, st.headers_found,
                                st.column_names, st.data_rows)
    IN  IF test.stop THEN [state |-> entered, stop |-> TRUE]
        ELSE IF ~test.in_faculty_section THEN [state |-> entered, stop |-> FALSE]
        ELSE [state |-> extract_section_tables(entered, page.tables), stop |-> FALSE]

HeaderRow == <<<<"N", "a", "m", "e">>, <<"A", "g", "e">>, <<"Q", "u", "a", "l", "i", "f", "i", "c", "a", "t", "i", "o", "n">>>>
GoodRow(name) == <<name, <<"4", "0">>, <<"P", "h", ".", "D">>>>

\* the phrases found in the text of a page, and its tables
SectionCover == [text |-> {}, tables |-> << <<HeaderRow, GoodRow(<<"C", "y">>)>> >>]
SectionOpens ==
    [text |-> {"Faculty Details"},
     tables |-> << <<HeaderRow, GoodRow(<<"A", "l">>), <<<<"O", "l">>, <<"7", "0">>, <<"P", "h", ".", "D">>>>>> >>]
SectionGoesOn ==
    [text |-> {},
     tables |-> << <<GoodRow(<<"B", "o">>), <<<<"Z", "e", "d">>>>, <<Null, <<" ">>>>>>,
                   <<HeaderRow, <<<<"B", "a">>, <<"n", "/", "a">>, <<"M", ".", "T", "e", "c", "h">>>>>> >>]
SectionStops ==
    [text |-> {"Financial Resources"}, tables |-> << <<HeaderRow, GoodRow(<<"D", "i">>)>> >>]
SectionOpensAndStops ==
    [text |-> {"Faculty Details", "Financial Resources"},
     tables |-> << <<HeaderRow, GoodRow(<<"E", "d">>)>> >>]
SectionSummary ==
    [text |-> {}, tables |-> << <<<<<<"D", "e", "p", "t">>, <<"T", "o", "t", "a", "l">>>>, <<<<"C", "S", "E">>, <<"1", "2">>>>>> >>]
SectionBlank == [text |-> {}, tables |-> <<>>]
SectionWide ==
    [text |-> {"Faculty Details"},
     tables |-> << <<HeaderRow, <<<<"E", "v", "e">>, <<"5", "0">>, <<"M", ".", "T", "e", "c", "h">>, <<"x">>>>>> >>]
SectionPages ==
    { SectionCover, SectionOpens, SectionGoesOn, SectionStops, SectionOpensAndStops,
      SectionSummary, SectionBlank, SectionWide }
SectionDocuments == { [pages |-> pages] : pages \in SeqsUpTo(SectionPages, MaxPages) }

InitSection ==
    /\ pc = "section_pages" /\ pdf \in SectionDocuments /\ page_num = 0
    /\ SectionIdle
    /\ pdf_files = <<>> /\ doc = 0 /\ created_files = <<>> /\ total_faculty = 0
    /\ creatable = {} /\ output_dir = ""
    /\ arg = <<>> /\ out1 = <<>> /\ out2 = <<>>
    /\ norm_row = <<>> /\ i = 0 /\ record = NoRecord /\ filled_fields = NoFlags
    /\ remaining_cells = <<>> /\ fired = "" /\ verdict = NoVerdict
    /\ records = <<>> /\ df = <<>> /\ script = "project.py" /\ encountered = <<>>

\* one turn of the page loop of extract_faculty_from_pdf
SectionPage ==
    /\ pc = "section_pages" /\ page_num < Len(pdf.pages)
    /\ LET o == extract_section_page(
                    SectionState(in_faculty_section, headers_found, column_names, data_rows),
                    pdf.pages[page_num + 1])
       IN  /\ in_faculty_section' = o.state.in_faculty_section
           /\ headers_found' = o.state.headers_found
           /\ column_names' = o.state.column_names
           /\ data_rows' = o.state.data_rows
           /\ pc' = IF o.stop THEN "section_return" ELSE "section_pages"
    /\ page_num' = page_num + 1
    /\ UNCHANGED <<arg, out1, out2, norm_row, i, record, filled_fields, remaining_cells,
                   fired, verdict, script, encountered, records, df, pdf_files, doc, pdf,
                   created_files, total_faculty, creatable, output_dir>>

\* the pages are exhausted
SectionEnd ==
    /\ pc = "section_pages" /\ page_num = Len(pdf.pages)
    /\ pc' = "section_return"
    /\ UNCHANGED <<arg, out1, out2, norm_row, i, record, filled_fields, remaining_cells,
                   fired, verdict, script, encountered, records, df, batch_vars>>

\* return pd.DataFrame(data_rows, columns=column_names): the constructor
\* raises when a row has more cells than there are columns
ReturnFrame ==
    /\ pc = "section_return"
    /\ IF \E k \in 1..Len(data_rows) : Len(data_rows[k]) # Len(column_names)
       THEN pc' = "section_raised" /\ df' = df
       ELSE pc' = "section_done" /\ df' = data_rows
    /\ UNCHANGED <<arg, out1, out2, norm_row, i, record, filled_fields, remaining_cells,
                   fired, verdict, script, encountered, records, batch_vars>>

NextSection == SectionPage \/ SectionEnd \/ ReturnFrame
SpecSection == InitSection /\ [][NextSection]_vars

(***************************************************************************)
(* C1.  In create_enhanced_record_with_years each of Age, Gender,          *)
(* Designation, Qualification, Experience, Working status, Joining Date,   *)
(* Leaving Date and Association type is written at most once over the     *)
(* scan and the fallback pass: a step changes such a field only from empty *)
(* to non-empty, and a non-empty field is never changed again.             *)
(***************************************************************************)
SingularFields ==
    { "Age", "Gender", "Designation", "Qualification", "Experience (in years)",
      "Currently working with institution?", "Joining Date", "Leaving Date",
      "Association type" }

\* C1: a step never changes a filled singular field, and it changes an empty
\* one only by filling it
C1_FirstMatchWins ==
    [][ \A f \in SingularFields :
          /\ record[f] # <<>> => record'[f] = record[f]
          /\ record'[f] # record[f] => record'[f] # <<>> ]_vars

\* a second age-like cell has been scanned after Age was set from the first
C1_Witness ==
    /\ pc = "scan" /\ i = 4
    /\ norm_row[3] = <<"3", "4">> /\ norm_row[4] = <<"3", "4">>
    /\ record["Age"] = <<"3", "4">>
    /\ fired = "none"

(***************************************************************************)
(* C2.  The example row passes is_potential_faculty_row and yields S No 3, *)
(* Name Jane Smith, Age 34, Designation Associate Professor, Gender F,     *)
(* Qualification M.Tech, Experience 4 years, Working Yes, Joining Date     *)
(* 12/2019, Leaving Date empty, Association type Regular.                  *)
(***************************************************************************)
ExampleRecord ==
    [f \in Fields |->
        CASE f = "S No" -> <<"3">>
          [] f = "Name" -> <<"J", "a", "n", "e", " ", "S", "m", "i", "t", "h">>
          [] f = "Age" -> <<"3", "4">>
          [] f = "Designation" -> <<"A", "s", "s", "o", "c", "i", "a", "t", "e", " ", "P", "r", "o", "f", "e", "s", "s", "o", "r">>
          [] f = "Gender" -> <<"F">>
          [] f = "Qualification" -> <<"M", ".", "T", "e", "c", "h">>
          [] f = "Experience (in years)" -> <<"4", " ", "y", "e", "a", "r", "s">>
          [] f = "Currently working with institution?" -> <<"Y", "e", "s">>
          [] f = "Joining Date" -> <<"1", "2", "/", "2", "0", "1", "9">>
          [] f = "Leaving Date" -> <<>>
          [] f = "Association type" -> <<"R", "e", "g", "u", "l", "a", "r">>
          [] f = "Institution name" -> InstitutionName]

\* C2: the example row passes the strict classifier and the record returned
\* for it is the one of the example
C2_ExampleRecord ==
    (pc = "done" /\ norm_row = ExampleRow) =>
        /\ is_potential_faculty_row(norm_row)
        /\ verdict.some
        /\ verdict.record = ExampleRecord

\* the example row has gone through the scan, the fallback pass and the return
C2_Witness ==
    /\ pc = "done" /\ norm_row = ExampleRow
    /\ verdict.record["Experience (in years)"] = <<"4", " ", "y", "e", "a", "r", "s">>

(***************************************************************************)
(* C3.  In the scan every cell at index >= 2 that is not skipped is        *)
(* consumed by exactly the first rule, in the order Age, Gender,           *)
(* Designation, Experience 4a, 4b, 4c, Working status, Dates,              *)
(* Qualification, Association type, whose target field is still empty and  *)
(* whose pattern matches the cell; only the target field of that rule      *)
(* changes, and a cell matching no rule changes no field.                  *)
(***************************************************************************)
RuleOrder ==
    << "Age", "Gender", "Designation", "Experience4a", "Experience4b", "Experience4c",
       "Working", "Dates", "Qualification", "Association" >>

\* the fields a rule may write
Targets(r) ==
    CASE r = "Age" -> {"Age"}
      [] r = "Gender" -> {"Gender"}
      [] r = "Designation" -> {"Designation"}
      [] r \in {"Experience4a", "Experience4b", "Experience4c"} -> {"Experience (in years)"}
      [] r = "Working" -> {"Currently working with institution?"}
      [] r = "Dates" -> {"Joining Date", "Leaving Date"}
      [] r = "Qualification" -> {"Qualification"}
      [] r = "Association" -> {"Association type"}
      [] OTHER -> {}

PatternMatches(r, rec, cell_value) ==
    CASE r = "Age" -> AgeMatches(cell_value)
      [] r = "Gender" -> GenderMatches(cell_value)
      [] r = "Designation" -> DesignationMatches(cell_value)
      [] r = "Experience4a" -> Experience4a(cell_value)
      [] r = "Experience4b" -> Experience4b(cell_value)
      [] r = "Experience4c" -> Experience4c(cell_value)
      [] r = "Working" -> WorkingMatches(cell_value)
      [] r = "Dates" -> DateMatches(cell_value)
      [] r = "Qualification" -> QualificationMatches(cell_value)
      [] r = "Association" -> AssociationMatches(cell_value, rec)

Applicable(r, rec, cell_value) ==
    /\ \E f \in Targets(r) : rec[f] = <<>>
    /\ PatternMatches(r, rec, cell_value)

FirstApplicable(rec, cell_value) ==
    IF \E k \in 1..Len(RuleOrder) : Applicable(RuleOrder[k], rec, cell_value)
    THEN RuleOrder[CHOOSE k \in 1..Len(RuleOrder) :
                       /\ Applicable(RuleOrder[k], rec, cell_value)
                       /\ \A j \in 1..(k - 1) : ~Applicable(RuleOrder[j], rec, cell_value)]
    ELSE "none"

\* the first target of rule r that is still empty
TargetOf(r, rec) ==
    IF r = "Dates" THEN (IF rec["Joining Date"] = <<>> THEN "Joining Date" ELSE "Leaving Date")
    ELSE CHOOSE f \in Targets(r) : TRUE

ConsumedByFirst(rec, rec2, r, cell_value) ==
    /\ r = FirstApplicable(rec, cell_value)
    /\ IF r = "none" THEN rec2 = rec
       ELSE /\ rec2[TargetOf(r, rec)] # <<>>
            /\ \A f \in Fields \ {TargetOf(r, rec)} : rec2[f] = rec[f]

\* C3, as claimed: every non-empty cell is consumed by the first applicable
\* rule, or changes no field when no rule applies
C3_EveryNonEmptyCell ==
    [][ (pc = "scan" /\ i < Len(norm_row) /\ Strip(norm_row[i + 1]) # <<>>) =>
          ConsumedByFirst(record, record', fired', Strip(norm_row[i + 1])) ]_vars

\* C3: every cell other than an empty one and "nan" or "none" in any letter
\* case is consumed by the first applicable rule, or changes no field when
\* no rule applies; an empty, "nan" or "none" cell is skipped
C3_EveryScannedCell ==
    [][ (pc = "scan" /\ i < Len(norm_row)) =>
          IF Skipped(Strip(norm_row[i + 1]))
          THEN record' = record /\ filled_fields' = filled_fields /\ fired' = "skipped"
          ELSE ConsumedByFirst(record, record', fired', Strip(norm_row[i + 1])) ]_vars

\* a cell that matches the Experience 4b pattern and the Dates pattern has been
\* consumed by Experience 4b, the earlier rule
C3_Witness ==
    /\ pc = "scan" /\ i = 3
    /\ norm_row[3] = <<"1", "2", "/", "2", "0", "1", "9">>
    /\ fired = "Experience4b"
    /\ record["Experience (in years)"] = <<"1", " ", "y", "e", "a", "r", "s">>
    /\ record["Joining Date"] = <<>>

(***************************************************************************)
(* C4.  is_potential_faculty_row of extraction.py accepts a normalized row *)
(* exactly when: it has at least 2 cells; cell[0] is non-empty, at most 10 *)
(* characters, holds a digit and its first digit run is in 1..9999;        *)
(* cell[1] is non-empty, 2 to 100 characters and holds two letters in a    *)
(* row; none of the 15 exclusion terms occurs in the lowercased,           *)
(* space-joined first five cells; and at least 3 cells are non-empty.      *)
(***************************************************************************)
C4_Conditions(cells) ==
    /\ Len(cells) >= 2
    /\ cells[1] # <<>> /\ Len(cells[1]) <= 10
    /\ \E p \in 1..Len(cells[1]) : IsDigit(cells[1][p])
    /\ LET n == ParseInt(FirstDigitRun(cells[1])) IN 1 <= n /\ n <= 9999
    /\ cells[2] # <<>> /\ 2 <= Len(cells[2]) /\ Len(cells[2]) <= 100
    /\ \E p \in 1..(Len(cells[2]) - 1) : IsAlpha(cells[2][p]) /\ IsAlpha(cells[2][p + 1])
    /\ Cardinality(exclude_terms) = 15
    /\ \A t \in exclude_terms : ~Contains(Lower(JoinSpace(Take(cells, 5))), t)
    /\ Cardinality({ k \in 1..Len(cells) : cells[k] # <<>> }) >= 3

\* C4: the strict classifier accepts the normalized row iff the conditions hold
C4_StrictClassifier ==
    (pc = "row_done" /\ script = "extraction.py" /\ arg # <<>>)
        => (verdict.accepted <=> C4_Conditions(norm_row))

\* a row is accepted with the longest name allowed
C4_Witness ==
    /\ pc = "row_done" /\ script = "extraction.py"
    /\ verdict.accepted /\ Len(norm_row[2]) = 100

(***************************************************************************)
(* C5.  Whichever script classifies it, a row with an exclusion term in    *)
(* its first three cells is rejected and yields no record.                 *)
(***************************************************************************)
\* C5: an exclusion term in the first three cells means no acceptance and no record
C5_ExclusionTermRejected ==
    (pc = "row_done"
     /\ ContainsAny(Lower(JoinSpace(Take(norm_row, 3))), exclude_terms_multi))
        => (~verdict.accepted /\ ~verdict.some)

(***************************************************************************)
(* C6.  Whichever script classifies it, a row whose cell[0] holds no digit *)
(* is rejected, whatever the other cells hold.                             *)
(***************************************************************************)
\* C6: no digit in cell[0] means no acceptance and no record
C6_NoDigitRejected ==
    (pc = "row_done" /\ Len(norm_row) >= 1
     /\ \A p \in 1..Len(norm_row[1]) : ~IsDigit(norm_row[1][p]))
        => (~verdict.accepted /\ ~verdict.some /\ records = <<>>)

\* the loose classifier has turned down ABC, John Doe, 34
C6_Witness ==
    /\ pc = "row_done" /\ script = "projectdatamulti.py"
    /\ Len(norm_row) >= 3
    /\ norm_row[1] = <<"A", "B", "C">>
    /\ norm_row[2] = <<"J", "o", "h", "n", " ", "D", "o", "e">>
    /\ norm_row[3] = <<"3", "4">>
    /\ ~verdict.accepted

(***************************************************************************)
(* C7.  Whichever script extracts it, a record appended to the document's  *)
(* list has a Name that is non-empty, at least 2 characters long and holds *)
(* a letter.                                                               *)
(***************************************************************************)
\* C7: every appended record has a Name of 2 or more characters with a letter
C7_NameValid ==
    \A k \in 1..Len(records) :
        LET name == records[k]["Name"]
        IN  name # <<>> /\ Len(name) >= 2 /\ \E p \in 1..Len(name) : IsAlpha(name[p])

(***************************************************************************)
(* C8.  For every non-empty text, convert_months_to_years returns the text *)
(* unchanged when it holds no digit run; otherwise, with n the value of    *)
(* the first digit run: "{n} months" when n < 12 (n = 0 included),         *)
(* "{n/12} years" when 12 divides n >= 12, and n/12 to one decimal place   *)
(* followed by " years" otherwise.                                         *)
(***************************************************************************)
C8_Claimed(text) ==
    IF FirstDigitRun(text) = <<>> THEN text
    ELSE LET n == ParseInt(FirstDigitRun(text))
         IN  IF n < 12 THEN IntToStr(n) \o MonthsWord
             ELSE IF n % 12 = 0 THEN IntToStr(n \div 12) \o YearsWord
             ELSE OneDecimal(n) \o YearsWord

\* C8: the result for a non-empty text is the one the claim gives, "0 months"
\* for a first digit run of value 0 included
C8_ConvertsAsClaimed ==
    (pc \in {"conv_again", "conv_done"} /\ arg # <<>>) => out1 = C8_Claimed(arg)

(***************************************************************************)
(* C9.  safe_normalize_cell is idempotent, and its result has no line      *)
(* break, no two consecutive whitespace characters and no leading or       *)
(* trailing space.                                                         *)
(***************************************************************************)
C9_Clean(s) ==
    /\ \A k \in 1..Len(s) : s[k] \notin {"\r", "\n"}
    /\ \A k \in 1..(Len(s) - 1) : ~(IsSpace(s[k]) /\ IsSpace(s[k + 1]))
    /\ s # <<>> => (~IsSpace(s[1]) /\ ~IsSpace(s[Len(s)]))

\* C9: the result of safe_normalize_cell is clean, and normalizing it again
\* gives it back
C9_NormalizeIdempotent ==
    /\ pc \in {"norm_again", "norm_done"} => C9_Clean(out1)
    /\ pc = "norm_done" => out2 = out1

\* a cell with a carriage return and a line feed between two letters has been
\* normalized twice
C9_Witness ==
    /\ pc = "norm_done"
    /\ arg = <<"a", "\r", "\n", "a">>
    /\ out1 = <<"a", " ", "a">>
    /\ out2 = out1

(***************************************************************************)
(* C10.  After the save of any of the four scripts no two rows of the      *)
(* final table share (Institution name, Name), and the row that survives   *)
(* for a pair is the first record with that pair that the rows produced,   *)
(* in page and row order.                                                  *)
(***************************************************************************)
PairKey == { "Institution name", "Name" }

\* the first record built from the rows that has the pair of table row r
FirstEncountered(r) ==
    encountered[CHOOSE k \in 1..Len(encountered) :
                    /\ SameOn(PairKey, encountered[k], r)
                    /\ \A j \in 1..(k - 1) : ~SameOn(PairKey, encountered[j], r)]

\* C10: the pairs of the final table are unique and each row is the first
\* record encountered with its pair
C10_FirstEncounteredSurvives ==
    pc = "saved" =>
        /\ \A a, b \in 1..Len(df) : a # b => ~SameOn(PairKey, df[a], df[b])
        /\ \A a \in 1..Len(df) :
               SameOn(DOMAIN FirstEncountered(df[a]), FirstEncountered(df[a]), df[a])

(***************************************************************************)
(* C11.  In the table saved by save_individual_college_excel of            *)
(* extraction.py the Final Serial column is 1, 2, ..., N in row order,     *)
(* with N the number of records that survive deduplication, whatever the   *)
(* S No values are.                                                        *)
(***************************************************************************)
\* the number of records of the list that survive drop_duplicates on Name
SurvivorCount == Cardinality({ records[k]["Name"] : k \in 1..Len(records) })

\* C11: Final Serial of row k is k, and the table has one row per survivor
C11_FinalSerialDense ==
    (pc = "saved" /\ script = "extraction.py") =>
        /\ Len(df) = SurvivorCount
        /\ \A k \in 1..Len(df) : df[k]["Final Serial"] = k

\* three records, one a duplicate; the two survivors both have S No 2
C11_Witness ==
    /\ pc = "saved" /\ script = "extraction.py"
    /\ Len(records) = 3 /\ Len(df) = 2
    /\ df[1]["S No"] = <<"2">> /\ df[2]["S No"] = <<"2">>
    /\ df[2]["Final Serial"] = 2

(***************************************************************************)
(* C12.  In the table saved by save_individual_college_excel of            *)
(* extraction.py the rows are in ascending order of the numeric S No, and  *)
(* two rows with equal S No are in the order in which their records were   *)
(* encountered.                                                            *)
(***************************************************************************)
\* the place in the record list of the record that table row r comes from
EncounterIndex(r) ==
    CHOOSE k \in 1..Len(records) :
        /\ records[k]["Name"] = r["Name"]
        /\ \A j \in 1..(k - 1) : records[j]["Name"] # r["Name"]

\* C12: ascending numeric S No, rows with equal S No in encounter order
C12_SortedStable ==
    (pc = "saved" /\ script = "extraction.py") =>
        \A a, b \in 1..Len(df) :
            a < b =>
                LET ka == ToNumeric(df[a]["S No"], 999999)
                    kb == ToNumeric(df[b]["S No"], 999999)
                IN  /\ ka <= kb
                    /\ ka = kb => EncounterIndex(df[a]) < EncounterIndex(df[b])

(***************************************************************************)
(* C13.  The record list of extract_from_single_pdf (extraction.py) holds  *)
(* no two records with the same lowercased, trimmed Name and the same      *)
(* S No; the record kept for such a pair is the first one encountered; a   *)
(* record encountered a second time adds nothing.                          *)
(***************************************************************************)
DuplicateKey(r) == <<Strip(Lower(r["Name"])), r["S No"]>>

\* the places of the encountered records that no earlier one repeats
FirstPlaces(enc) ==
    { e \in 1..Len(enc) :
        \A j \in 1..(e - 1) : DuplicateKey(enc[j]) # DuplicateKey(enc[e]) }

KeepsFirstOfEachKey(recs, enc) ==
    /\ \A a, b \in 1..Len(recs) :
           a # b => DuplicateKey(recs[a]) # DuplicateKey(recs[b])
    /\ Len(recs) = Cardinality(FirstPlaces(enc))
    /\ \A e \in FirstPlaces(enc) :
           recs[Cardinality({ j \in FirstPlaces(enc) : j <= e })] = enc[e]

\* C13: the record list is the first record of every (name, S No) key, in
\* encounter order, and a record met again leaves the list as it was
C13_NoDuplicateRecords ==
    [][(script = "extraction.py" /\ encountered' # encountered) =>
           /\ KeepsFirstOfEachKey(records', encountered')
           /\ (\E k \in 1..Len(encountered) :
                   encountered[k] = encountered'[Len(encountered')])
                  => records' = records]_vars

C13_Witness ==
    /\ script = "extraction.py" /\ pc = "collect"
    /\ Len(encountered) = 3 /\ Len(records) = 2
    /\ encountered[3] = encountered[1]
    /\ encountered[1]["Name"] = <<"A", "l">>
    /\ encountered[2]["Name"] = <<"a", "l">>
    /\ encountered[2]["S No"] # encountered[1]["S No"]

(***************************************************************************)
(* C15.  Every record made by the row loop of any of the four scripts has  *)
(* an S No that is the decimal text of an integer from 1 to 10000.         *)
(***************************************************************************)
DecimalTextOfSerial(text) ==
    /\ text # <<>>
    /\ \A k \in 1..Len(text) : IsDigit(text[k])
    /\ text[1] # "0"
    /\ ParseInt(text) >= 1 /\ ParseInt(text) <= 10000

\* C15: the S No of every record is the decimal text of an integer in 1..10000
C15_SerialInRange ==
    /\ \A k \in 1..Len(records) : DecimalTextOfSerial(records[k]["S No"])
    /\ (pc = "row_done" /\ verdict.some) => DecimalTextOfSerial(verdict.record["S No"])

C15_Witness ==
    /\ pc = "row_done" /\ script = "projectdatamulti.py"
    /\ Len(records) = 1
    /\ records[1]["S No"] = <<"1", "0", "0", "0", "0">>

\* a serial written with leading zeros is stored without them
C15_WitnessLeadingZeros ==
    /\ pc = "row_done" /\ script = "python.project3.py"
    /\ Len(arg) >= 2 /\ arg[1] = <<"0", "0", "7">>
    /\ Len(records) = 1 /\ records[1]["S No"] = <<"7">>

(***************************************************************************)
(* C16.  The Experience field of a record returned by                      *)
(* create_enhanced_record_with_years is empty, "{n} months", "{n} years"   *)
(* or "{n.d} years" with exactly one decimal digit.                        *)
(***************************************************************************)
DigitsOnly(text) == text # <<>> /\ \A k \in 1..Len(text) : IsDigit(text[k])

OneDecimalDigit(text) ==
    /\ Len(text) >= 3
    /\ DigitsOnly(SubSeq(text, 1, Len(text) - 2))
    /\ text[Len(text) - 1] = "."
    /\ IsDigit(text[Len(text)])

CanonicalExperience(text) ==
    \/ text = <<>>
    \/ \E n \in 1..Len(text) :
           LET number == SubSeq(text, 1, n)
               unit == SubSeq(text, n + 1, Len(text))
           IN  \/ DigitsOnly(number) /\ unit \in { MonthsWord, YearsWord }
               \/ OneDecimalDigit(number) /\ unit = YearsWord

\* C16: the Experience of a returned record is empty or canonical
C16_CanonicalExperience ==
    (pc = "done" /\ verdict.some) =>
        CanonicalExperience(verdict.record["Experience (in years)"])

(***************************************************************************)
(* C17.  Joining Date and Leaving Date of create_enhanced_record_with_years *)
(* against the date-like cells of the row, in row order.                   *)
(***************************************************************************)
\* the date-like cells of the row from index 2 on
DateLikeCells(row) ==
    SelectSeq([k \in 1..(Len(row) - 2) |-> Strip(row[k + 2])], DateMatches)

\* the claim as stated: the first date-like cell is the Joining Date, the
\* second the Leaving Date, and both are empty when the row has none
C17_FirstDateLikeCells ==
    (pc = "done" /\ verdict.some) =>
        LET cells == DateLikeCells(norm_row)
        IN  /\ cells # <<>> => verdict.record["Joining Date"] = cells[1]
            /\ Len(cells) >= 2 => verdict.record["Leaving Date"] = cells[2]
            /\ cells = <<>> => /\ verdict.record["Joining Date"] = <<>>
                               /\ verdict.record["Leaving Date"] = <<>>

\* the rules that come before Dates in the scan
RulesBeforeDates ==
    { "Age", "Gender", "Designation", "Experience4a", "Experience4b", "Experience4c",
      "Working" }

DatesUnchanged(before, after) ==
    /\ after["Joining Date"] = before["Joining Date"]
    /\ after["Leaving Date"] = before["Leaving Date"]

\* C17: a date-like cell that no earlier rule consumes becomes the Joining Date
\* when that is empty, else the Leaving Date when that is empty; nothing else,
\* in the scan or in the fallback pass, changes the two dates
C17_DatesInPriorityOrder ==
    [][ IF pc = "scan" /\ i < Len(norm_row)
        THEN LET cell_value == Strip(norm_row[i + 1])
             IN  IF DateMatches(cell_value) /\ fired' \notin RulesBeforeDates
                 THEN IF record["Joining Date"] = <<>>
                      THEN /\ record'["Joining Date"] = cell_value
                           /\ record'["Leaving Date"] = <<>>
                      ELSE IF record["Leaving Date"] = <<>>
                      THEN /\ record'["Leaving Date"] = cell_value
                           /\ record'["Joining Date"] = record["Joining Date"]
                      ELSE DatesUnchanged(record, record')
                 ELSE DatesUnchanged(record, record')
        ELSE DatesUnchanged(record, record') ]_vars

\* the first date-like cell went to Experience, the second and third are the dates
C17_Witness ==
    /\ pc = "done" /\ verdict.some
    /\ DateLikeCells(norm_row) = << <<"0", "5", "0", "0">>, <<"0", "5", "0", "0">>,
                                    <<"2", "0", "2", "0">> >>
    /\ verdict.record["Experience (in years)"] = <<"4", "1", ".", "7">> \o YearsWord
    /\ verdict.record["Joining Date"] = <<"0", "5", "0", "0">>
    /\ verdict.record["Leaving Date"] = <<"2", "0", "2", "0">>

(***************************************************************************)
(* C19.  A cell with a decimal number in [0.1, 50] and no duration keyword *)
(* that reaches the Experience rules while Experience is unfilled.         *)
(***************************************************************************)
DecimalWithoutKeyword(cell_value) ==
    /\ Experience4c(cell_value)
    /\ ~ContainsAny(Lower(cell_value), experience_indicators)

\* C19: such a cell sets Experience to its decimal value followed by " years"
C19_DecimalTakenAsYears ==
    [][ (/\ pc = "scan" /\ i < Len(norm_row)
         /\ ~filled_fields["Experience"]
         /\ DecimalWithoutKeyword(Strip(norm_row[i + 1]))
         /\ fired' \notin { "Age", "Gender", "Designation" })
        => record'["Experience (in years)"] = FloatStr(Strip(norm_row[i + 1])) \o YearsWord
      ]_vars

(***************************************************************************)
(* C20.  A cell made only of digits whose value is in 18..80 is never the  *)
(* source of Experience, in the scan or in the fallback pass.              *)
(***************************************************************************)
AgeBandCell(cell_value) ==
    /\ DigitsOnly(cell_value)
    /\ 18 <= ParseInt(cell_value) /\ ParseInt(cell_value) <= 80

\* C20: the scan leaves Experience alone on such a cell, and the fallback for
\* Experience takes no such cell out of the remaining cells
C20_AgeBandNeverExperience ==
    [][ /\ (pc = "scan" /\ i < Len(norm_row) /\ AgeBandCell(Strip(norm_row[i + 1])))
            => /\ record'["Experience (in years)"] = record["Experience (in years)"]
               /\ fired' \notin { "Experience4a", "Experience4b", "Experience4c" }
        /\ pc = "fallback_experience"
            => SelectSeq(remaining_cells', AgeBandCell)
                   = SelectSeq(remaining_cells, AgeBandCell) ]_vars

\* Age unfilled: the zero-padded 45 went through the scan and the fallback
C20_Witness ==
    /\ pc = "done" /\ verdict.some
    /\ Len(norm_row) = 5 /\ norm_row[5] = <<"0", "0", "4", "5">>
    /\ verdict.record["Age"] = <<>>
    /\ verdict.record["Leaving Date"] = <<"2", "0", "2", "0">>
    /\ verdict.record["Experience (in years)"] = <<>>
    /\ verdict.record["Qualification"] = <<"0", "0", "4", "5">>

\* Age filled: the second age-like cell is left to Association type
C20_WitnessAgeFilled ==
    /\ pc = "done" /\ verdict.some
    /\ Len(norm_row) = 4 /\ norm_row[4] = <<"4", "5">>
    /\ verdict.record["Age"] = <<"3", "4">>
    /\ verdict.record["Experience (in years)"] = <<>>
    /\ verdict.record["Association type"] = <<"4", "5">>

(***************************************************************************)
(* C14.  Fail-soft processing.  A page of extract_from_single_pdf that     *)
(* raises leaves the records collected so far in the list and the page     *)
(* loop goes on to the next page; a document of                            *)
(* process_all_pdfs_separately that fails to open or to save leaves the    *)
(* loop over the documents running, and the run ends by returning.         *)
(***************************************************************************)
PrefixOf(a, b) == Len(a) <= Len(b) /\ SubSeq(b, 1, Len(a)) = a

\* C14: every turn of the page loop keeps the records and goes to the next
\* page; the page loop ends only after the last page; every document, saved
\* or not, is followed by the next one; once the output directory exists the
\* run returns only after the last document
C14_FailSoft ==
    [][ /\ (pc = "pages" /\ page_num < Len(pdf.pages))
            => /\ PrefixOf(records, records')
               /\ pc' = "pages" /\ page_num' = page_num + 1
        /\ (pc = "pages" /\ pc' # "pages") => page_num = Len(pdf.pages)
        /\ (pc = "extracted" \/ (pc = "next_document" /\ doc' # doc /\ ~pdf'.opens))
            => /\ pc' = "next_document"
               /\ PrefixOf(created_files, created_files')
        /\ (pc # "make_directory" /\ pc' \in { "returned_true", "returned_false" })
            => doc = Len(pdf_files)
      ]_vars

\* the second document: its first page gave two records, its second page
\* raised, its third page gave one more; the first document gave no workbook
C14_Witness ==
    /\ pc = "returned_true"
    /\ pdf_files = <<InstitutionName, OtherInstitution>>
    /\ created_files = <<excel_path(OtherInstitution)>>
    /\ pdf.pages = <<PageTwice, PageRaises, PageLate>>
    /\ Len(records) = 3
    /\ records[3]["Name"] = <<"A", "l">> /\ records[3]["S No"] = <<"2">>

\* a row raised after one record of its page; the next page was handled
C14_WitnessRowRaises ==
    /\ pc = "extracted"
    /\ pdf.pages = <<PageBadRow, PageLate>>
    /\ Len(records) = 3 /\ records[1]["Name"] = <<"a", "l">>

\* the first document gave no workbook; the second one, whose first page
\* raised, was saved
C14_WitnessSaveFails ==
    /\ pc = "next_document" /\ doc = 2
    /\ created_files = <<excel_path(OtherInstitution)>>
    /\ total_faculty = 1
    /\ pdf.pages = <<PageRaises, PageBadRow>>

(***************************************************************************)
(* C18.  The records and the table of a document depend on that document    *)
(* alone, whatever was processed before it.                                 *)
(***************************************************************************)
\* the rows of one page that reach record creation
RowsReached(page) ==
    IF page.extract = "raises" THEN <<>>
    ELSE LET rows == RowsOfTables(AllTables(page))
             stop == IF \E k \in 1..Len(rows) : rows[k].raises
                     THEN CHOOSE k \in 1..Len(rows) :
                              rows[k].raises /\ \A j \in 1..(k - 1) : ~rows[j].raises
                     ELSE Len(rows) + 1
         IN  SubSeq(rows, 1, stop - 1)

\* the records built from the first n pages of a document, in page and row order
RECURSIVE RecordsBuilt(_, _, _)
RecordsBuilt(document, n, institution) ==
    IF n = 0 THEN <<>>
    ELSE LET rows == RowsReached(document.pages[n])
         IN  RecordsBuilt(document, n - 1, institution)
             \o [k \in 1..Len(rows) |->
                    AsmRecord("extraction.py", rows[k].sno, rows[k].name, <<"3", "0">>,
                              institution)]

\* C18: when extraction returns, the record list is the first record of every
\* key among the records built from this document's own pages, and a table
\* that is written holds exactly the names of that list under this document's
\* institution, in the workbook named after it
C18_DocumentsIndependent ==
    [][ pc = "extracted" =>
          /\ KeepsFirstOfEachKey(records,
                 RecordsBuilt(pdf, Len(pdf.pages), institution_name))
          /\ created_files' # created_files =>
                /\ created_files' = Append(created_files, excel_path(institution_name))
                /\ \A k \in 1..Len(df') :
                       df'[k]["Institution name"] = institution_name
                /\ { df'[k]["Name"] : k \in 1..Len(df') }
                       = { records[k]["Name"] : k \in 1..Len(records) }
                /\ total_faculty' = total_faculty + Len(df')
      ]_vars

\* the second document of a batch, saved after a first one with other pages
C18_Witness ==
    /\ pc = "next_document" /\ doc = 2
    /\ pdf_files = <<InstitutionName, OtherInstitution>>
    /\ created_files = <<excel_path(InstitutionName), excel_path(OtherInstitution)>>
    /\ pdf.pages = <<PageTwice>>
    /\ Len(df) = 2 /\ df[1]["Institution name"] = OtherInstitution
    /\ total_faculty = 5

(***************************************************************************)
(* C21.  A cell that reaches the last rule of the scan while Association    *)
(* type is unfilled is stored as Association type when its length is       *)
(* strictly between 1 and 100, it is not purely numeric and it is not a    *)
(* value of the record.                                                    *)
(***************************************************************************)
ReachesLastRule(rule) == rule \in { "Association", "none" }

\* C21: such a cell, a two-character one included, becomes the Association type
C21_AssociationAccepts ==
    [][ (/\ pc = "scan" /\ i < Len(norm_row)
         /\ ~filled_fields["Association"]
         /\ ReachesLastRule(fired')
         /\ LET cell_value == Strip(norm_row[i + 1])
            IN  /\ Len(cell_value) > 1 /\ Len(cell_value) < 100
                /\ ~DigitsOnly(cell_value)
                /\ cell_value \notin Values(record))
        => record'["Association type"] = Strip(norm_row[i + 1]) ]_vars

(***************************************************************************)
(* C26.  A cell at index >= 2 is the source of at most one field: a cell   *)
(* that a rule of the scan consumed is not stored again by the fallback.   *)
(***************************************************************************)
RECURSIVE ScanStateBefore(_, _)
\* the record and the flags when the scan arrives at the n-th cell
ScanStateBefore(row, n) ==
    IF n <= 3 THEN CallState(NewRecord(row, InstitutionName, safe_extract_number(row[1]).val),
                             NewFlags, <<>>, "")
    ELSE LET before == ScanStateBefore(row, n - 1)
         IN  ScanCell(before.record, before.filled_fields, row[n - 1])

ConsumedPositions(row) ==
    { n \in 3..Len(row) :
        LET before == ScanStateBefore(row, n)
        IN  ScanCell(before.record, before.filled_fields, row[n]).fired
                \notin { "none", "skipped" } }

UnconsumedTexts(row) ==
    { Strip(row[n]) : n \in (3..Len(row)) \ ConsumedPositions(row) }

\* C26: what the fallback stores into Qualification or Association type is
\* not the text of a cell the scan consumed
C26_OneFieldPerCell ==
    [][ (pc = "fallback_qualification" \/ pc = "fallback_association")
        => \A f \in { "Qualification", "Association type" } :
              record'[f] # record[f]
              => (\/ record'[f] \in UnconsumedTexts(norm_row)
                  \/ \A n \in ConsumedPositions(norm_row) :
                         Strip(norm_row[n]) # record'[f]) ]_vars

(***************************************************************************)
(* C27.  The Leaving Date is set only after the Joining Date, from a later *)
(* cell of the row, and the fallback pass writes neither.                  *)
(***************************************************************************)
RecordUnderConstruction ==
    pc \in { "scan", "fallback_experience", "fallback_qualification",
             "fallback_association", "return", "done" }

\* C27: a non-empty Leaving Date comes with a non-empty Joining Date whose cell
\* has the smaller row index, and no step of the fallback changes the dates
C27_JoiningBeforeLeaving ==
    /\ [](RecordUnderConstruction /\ record["Leaving Date"] # <<>>
          => /\ record["Joining Date"] # <<>>
             /\ \E j \in 3..Len(norm_row) : \E l \in (j + 1)..Len(norm_row) :
                   /\ Strip(norm_row[j]) = record["Joining Date"]
                   /\ Strip(norm_row[l]) = record["Leaving Date"])
    /\ [][ (RecordUnderConstruction /\ pc # "scan")
           => DatesUnchanged(record, record') ]_vars

\* both dates were set and the fallback pass has run
C27_Witness ==
    /\ pc = "done" /\ verdict.some
    /\ Len(norm_row) = 5
    /\ Strip(norm_row[4]) = <<"2", "0", "2", "0">>
    /\ Strip(norm_row[5]) = <<"0", "5", "0", "0">>
    /\ verdict.record["Joining Date"] = Strip(norm_row[4])
    /\ verdict.record["Leaving Date"] = Strip(norm_row[5])
    /\ verdict.record["Qualification"] # <<>>

(***************************************************************************)
(* C28.  convert_months_to_years reads the first integer of its input as a *)
(* number of months, whatever unit word follows it.                        *)
(***************************************************************************)
FirstInteger(text) == ParseInt(FirstDigitRun(text))

\* C28: the output is the one of the bare integer, so two inputs with the same
\* non-zero first digit run have equal outputs ("5 years" and "5 months" give
\* "5 months", "24 years" gives "2 years"), and the output of "24 years" is
\* not a fixed point of the function
C28_UnitWordIgnored ==
    (pc \in { "conv_again", "conv_done" } /\ FirstDigitRun(arg) # <<>> /\ FirstInteger(arg) # 0)
        => /\ out1 = convert_months_to_years(IntToStr(FirstInteger(arg)))
           /\ FirstInteger(arg) = 5 => out1 = <<"5">> \o MonthsWord
           /\ FirstInteger(arg) = 24 => out1 = <<"2">> \o YearsWord
           /\ (pc = "conv_done" /\ FirstInteger(arg) = 24)
                 => out2 = <<"2">> \o MonthsWord /\ out2 # out1

\* "24 years" was converted twice: "2 years", then "2 months"
C28_Witness ==
    /\ pc = "conv_done"
    /\ arg = <<"2", "4">> \o YearsWord
    /\ out1 = <<"2">> \o YearsWord
    /\ out2 = <<"2">> \o MonthsWord

\* "5 years" was read as five months
C28_WitnessYears ==
    /\ pc = "conv_done"
    /\ arg = <<"5">> \o YearsWord
    /\ out1 = <<"5">> \o MonthsWord

(***************************************************************************)
(* C23.  save_individual_college_excel of extraction.py removes            *)
(* duplicates, reorders the rows and adds Final Serial; it changes no      *)
(* field value of the records that survive.                                *)
(***************************************************************************)
\* C23: every row of the table is the first record of its name, field by
\* field, with the one added column; every name of the list has its row
C23_FieldsKept ==
    (pc = "saved" /\ script = "extraction.py") =>
        /\ \A k \in 1..Len(df) :
              /\ DOMAIN df[k] = Fields \cup {"Final Serial"}
              /\ \E j \in 1..Len(records) :
                    /\ \A f \in Fields : df[k][f] = records[j][f]
                    /\ \A h \in 1..(j - 1) : records[h]["Name"] # records[j]["Name"]
        /\ \A j \in 1..Len(records) :
              \E k \in 1..Len(df) : df[k]["Name"] = records[j]["Name"]
        /\ \A k, l \in 1..Len(df) : df[k]["Name"] = df[l]["Name"] => k = l

\* a duplicate was removed and the rows were reordered: the first row of the
\* table is the last record, with its own S No and Age
C23_Witness ==
    /\ pc = "saved" /\ script = "extraction.py"
    /\ Len(records) = 3 /\ Len(df) = 2
    /\ df[1]["Name"] = records[3]["Name"]
    /\ df[1]["S No"] = <<"1">> /\ records[1]["S No"] = <<"2">>
    /\ df[2]["S No"] = <<"2">> /\ df[2]["Final Serial"] = 2
    /\ df[1]["Age"] = records[3]["Age"] /\ df[1]["Age"] # df[2]["Age"]

(***************************************************************************)
(* C22.  Every row of every table of a page that passes the classifier     *)
(* contributes a record, unless a record with its key is in the list.      *)
(***************************************************************************)
\* the page is handled to its end: no call and no row of it raises
HandledWhole(page) ==
    /\ page.extract = "ok"
    /\ \A k \in 1..Len(page.table) : ~page.table[k].raises

\* C22: after a page is handled the list holds a record with the key of every
\* row of every table of the page, whatever the number of rows of the table
C22_EveryRowContributes ==
    [][ (pc = "pages" /\ page_num < Len(pdf.pages)
            /\ HandledWhole(pdf.pages[page_num + 1]))
        => LET tables == AllTables(pdf.pages[page_num + 1])
           IN  \A t \in 1..Len(tables) : \A r \in 1..Len(tables[t]) :
                  \E k \in 1..Len(records') :
                     /\ Strip(Lower(records'[k]["Name"])) = Strip(Lower(tables[t][r].name))
                     /\ records'[k]["S No"] = tables[t][r].sno ]_vars

(***************************************************************************)
(* C24.  process_all_pdfs_separately returns False when no output          *)
(* directory can be created, True only when a workbook was written, and a  *)
(* failed save of one institution does not make the batch fail when        *)
(* another workbook was written.                                           *)
(***************************************************************************)
NoDirectoryCreatable ==
    \A k \in 1..Len(get_safe_output_directory) : get_safe_output_directory[k] \notin creatable

\* C24: without a directory the run returns False before any document; it
\* returns True exactly when created_files is not empty at the end; a save
\* that fails writes nothing and the loop goes on to the next document
C24_BatchResult ==
    [][ /\ (pc = "make_directory" /\ NoDirectoryCreatable)
            => pc' = "returned_false" /\ doc' = 0 /\ created_files' = <<>>
        /\ pc' = "returned_true" => created_files # <<>> /\ output_dir # ""
        /\ (pc = "next_document" /\ pc' = "returned_false") => created_files = <<>>
        /\ (pc = "extracted" /\ records # <<>> /\ ~pdf.saves)
            => /\ created_files' = created_files /\ total_faculty' = total_faculty
               /\ pc' = "next_document"
      ]_vars

\* the save of the second institution failed and the run returned True for
\* the workbook of the first
C24_Witness ==
    /\ pc = "returned_true"
    /\ pdf_files = <<InstitutionName, OtherInstitution>>
    /\ created_files = <<excel_path(InstitutionName)>>
    /\ records # <<>> /\ ~pdf.saves
    /\ output_dir = "."

\* no directory could be created: False, and no document was taken up
C24_WitnessNoDirectory ==
    /\ pc = "returned_false" /\ output_dir = "" /\ creatable = {}
    /\ doc = 0 /\ Len(pdf_files) = 2

(***************************************************************************)
(* C25.  clean_cell is idempotent and its result has no two consecutive    *)
(* spaces.                                                                 *)
(***************************************************************************)
\* C25: cleaning the cleaned cell changes nothing, and the cleaned cell has
\* no space next to a space
C25_CleanIdempotent ==
    pc = "clean_done" =>
        /\ out2 = out1
        /\ \A k \in 1..(Len(out1) - 1) : ~(out1[k] = " " /\ out1[k + 1] = " ")

(***************************************************************************)
(* C30.  is_valid_qualification returns True exactly for the strings that  *)
(* name M.Tech, M.E. or Ph.D and name neither B.Tech nor B.E; letters      *)
(* inside other words do not count.                                        *)
(***************************************************************************)
\* the degree is written in the text as a word of its own
NamesDegree(text, degree) ==
    \E p \in 1..(Len(text) - Len(degree) + 1) :
        /\ Lower(SubSeq(text, p, p + Len(degree) - 1)) = degree
        /\ p > 1 => ~IsAlpha(text[p - 1])
        /\ p + Len(degree) <= Len(text) => ~IsAlpha(text[p + Len(degree)])

WantedDegrees ==
    { <<"m", ".", "t", "e", "c", "h">>,
      <<"m", ".", "e">>,
      <<"p", "h", ".", "d">> }
UnwantedDegrees ==
    { <<"b", ".", "t", "e", "c", "h">>,
      <<"b", ".", "e">> }

\* C30: True exactly when a wanted degree is named and no unwanted one is
C30_ExactlyTheDegrees ==
    pc = "qual_done" =>
        (verdict.accepted <=>
            /\ arg # Null
            /\ \E d \in WantedDegrees : NamesDegree(arg, d)
            /\ ~\E d \in UnwantedDegrees : NamesDegree(arg, d))

(***************************************************************************)
(* C29.  extract_faculty_from_pdf takes rows only from the pages from the  *)
(* first one with "Faculty Details" up to, and without, the first one      *)
(* from there on with "Financial Resources".                               *)
(***************************************************************************)
\* the first page whose text has Faculty Details (0: none)
SectionStart(pages) ==
    IF \E k \in 1..Len(pages) : "Faculty Details" \in pages[k].text
    THEN CHOOSE k \in 1..Len(pages) :
             /\ "Faculty Details" \in pages[k].text
             /\ \A j \in 1..(k - 1) : "Faculty Details" \notin pages[j].text
    ELSE 0

\* the first page, at or after the start, whose text has Financial Resources
\* (one past the last page: none)
SectionStop(pages) ==
    LET from == SectionStart(pages)
        Stops(k) == k >= from /\ "Financial Resources" \in pages[k].text
    IN  IF from # 0 /\ \E k \in 1..Len(pages) : Stops(k)
        THEN CHOOSE k \in 1..Len(pages) : Stops(k) /\ \A j \in 1..(k - 1) : ~Stops(j)
        ELSE Len(pages) + 1

InSection(pages, p) ==
    SectionStart(pages) # 0 /\ SectionStart(pages) <= p /\ p < SectionStop(pages)

\* the rows of the tables of a page, blank rows dropped and cells stripped
RowsOfPage(page) ==
    UNION { { cleaned_table(page.tables[t])[r] :
                r \in 1..Len(cleaned_table(page.tables[t])) } :
            t \in 1..Len(page.tables) }

\* C29: a step adds rows only when it handles a page inside the section; the
\* step on the stop page adds nothing and leaves the loop, and no page is
\* handled after it; every row returned is a row of a page inside the section
C29_OnlySectionPages ==
    /\ [][ /\ data_rows' # data_rows
              => pc = "section_pages" /\ InSection(pdf.pages, page_num + 1)
           /\ (pc = "section_pages" /\ page_num + 1 = SectionStop(pdf.pages)
                  /\ page_num < Len(pdf.pages))
              => pc' = "section_return" /\ data_rows' = data_rows
           /\ (pc = "section_return" \/ pc = "section_done")
              => page_num' = page_num /\ data_rows' = data_rows
         ]_vars
    /\ [](pc = "section_done"
          => \A k \in 1..Len(df) :
                \E p \in 1..Len(pdf.pages) :
                   /\ InSection(pdf.pages, p)
                   /\ \E r \in RowsOfPage(pdf.pages[p]) : PadRow(r, column_names) = df[k])

\* a page with a valid row before the section, the page that opens it and
\* the stop page: only the row of the second page is returned
C29_Witness ==
    /\ pc = "section_done"
    /\ pdf.pages = <<SectionCover, SectionOpens, SectionStops>>
    /\ page_num = 3
    /\ df = <<GoodRow(<<"A", "l">>)>>

\* the section went on over a second page and was never closed
C29_WitnessOpenEnd ==
    /\ pc = "section_done"
    /\ pdf.pages = <<SectionStops, SectionOpens, SectionGoesOn>>
    /\ df = <<GoodRow(<<"A", "l">>), GoodRow(<<"B", "o">>)>>

=============================================================================
